---- MODULE Spec2Model ----
(***************************************************************************)
(* A model of the rusty-lox bytecode pipeline: the single-pass compiler    *)
(* (src/src/compiler/mod.rs), the chunk data model (src/src/bytecode) and  *)
(* the stack virtual machine (src/src/vm/mod.rs).                          *)
(*                                                                         *)
(* Conventions.  Rust indexes from 0 and TLA+ sequences from 1: the model  *)
(* keeps every index (ip, constant index, local slot, stack offset) as the *)
(* code has it, 0-based, and adds 1 where a sequence is read.  An f64 is   *)
(* its IEEE 754 value: a mantissa of up to 53 binary digits and a power of *)
(* two, an infinity, NaN or a zero with its sign; every operation rounds   *)
(* to the nearest f64.  An Option is a sequence of length 0 or 1.          *)
(***************************************************************************)
EXTENDS Integers, Sequences, FiniteSets, TLC

VARIABLES
    settings,         \* VM.settings (capture_prints)
    globals,          \* VM.globals : name -> Value
    stack,            \* VM.stack
    captured_prints,  \* VM.captured_prints
    frames,           \* VM.frames
    stdout,           \* what println! has written to the standard output
    vm_pc,            \* "new" | "running" | "returned" : position of VM::interpret
    result,           \* what VM::interpret returned
    steps,            \* number of instructions dispatched (bounded by MaxSteps)
    origin,           \* the input: <<>>, a source (lexemes) or a bytecode function
    compiler,         \* Compiler: function, function_type, locals, scope_depth
    parser,           \* the Parser of Compiler::compile: <<>> before it exists
    errors,           \* CompileErrors.errors of Compiler::compile
    c_pc,             \* "new" | "compiling" | "done" : position of Compiler::compile
    compile_result,   \* what compile returned
    unit_chunk,       \* a Chunk that is written to directly
    unit_pushed,      \* the lines that Chunk::write has pushed to its Lines
    unit_returned,    \* the last call made on the chunk, and what it returned
    unit_made,        \* the values passed to Chunk::make_constant, each with the index returned
    source,           \* a Source of the scanner: characters still to come, buffered
    source_input,     \* the string the Source was made of
    source_calls      \* the calls made on the Source, each with what it returned

vm_vars == <<settings, globals, stack, captured_prints, frames, stdout, vm_pc,
             result, steps>>
compile_vars == <<compiler, parser, errors, c_pc, compile_result>>
source_vars == <<source, source_input, source_calls>>
unit_vars == <<unit_chunk, unit_pushed, unit_returned, unit_made, source_vars>>
vars == <<vm_vars, compile_vars, origin, unit_vars>>

-----------------------------------------------------------------------------
(* Bounds *)

\* The dispatch loop is cut after this many instructions.
MaxSteps == 60

\* u8::MAX, the largest index a Constant instruction can carry.
U8Max == 255

-----------------------------------------------------------------------------
(* Data model: Function, Value, Instruction *)

\* Lines::default() / Chunk::new()
ChunkNew == [code |-> <<>>, constants |-> <<>>, lines |-> <<>>]

\* Function::new()
FunctionNew == [arity |-> 0, chunk |-> ChunkNew, name |-> <<>>]

\* Function::new_with_name
FunctionNewWithName(name) == [arity |-> 0, chunk |-> ChunkNew, name |-> <<name>>]

\* Function::new_script
FunctionNewScript(chunk) == [arity |-> 0, chunk |-> chunk, name |-> <<>>]

\* A natural number of any size is the sequence of its digits in base 2^15,
\* the least significant first and the last one not 0; zero is <<>>.
Base == 2^15
Limb(a, i) == IF 1 <= i /\ i <= Len(a) THEN a[i] ELSE 0

Trim(a) ==
    SubSeq(a, 1, CHOOSE n \in 0..Len(a) :
                     /\ n = 0 \/ a[n] # 0
                     /\ \A k \in (n + 1)..Len(a) : a[k] = 0)

BitsOf(n) == Trim(<<n % Base, (n \div Base) % Base, n \div (Base * Base)>>)

\* The number of binary digits of a
BitLen(a) ==
    IF a = <<>> THEN 0
    ELSE 15 * (Len(a) - 1)
         + (CHOOSE j \in 1..15 : 2^(j - 1) <= a[Len(a)] /\ a[Len(a)] < 2^j)

\* The binary digit of a that counts 2^i
TestBit(a, i) == (Limb(a, (i \div 15) + 1) \div 2^(i % 15)) % 2

\* Whether a is a multiple of 2^k
LowBitsZero(a, k) ==
    /\ \A i \in 1..(k \div 15) : Limb(a, i) = 0
    /\ Limb(a, (k \div 15) + 1) % 2^(k % 15) = 0

\* The greatest k for which a, not zero, is a multiple of 2^k
TrailingZeros(a) ==
    LET low == CHOOSE i \in 1..Len(a) : a[i] # 0 /\ \A k \in 1..(i - 1) : a[k] = 0
    IN 15 * (low - 1) + (CHOOSE j \in 0..14 : a[low] % 2^(j + 1) = 2^j)

\* a * 2^k and a / 2^k, the remainder dropped
Shl(a, k) ==
    IF a = <<>> \/ k <= 0 THEN a
    ELSE [i \in 1..(k \div 15) |-> 0]
         \o Trim([i \in 1..(Len(a) + 1) |->
                     ((Limb(a, i) * 2^(k % 15)) % Base)
                     + (Limb(a, i - 1) \div 2^(15 - (k % 15)))])
Shr(a, k) ==
    IF a = <<>> \/ k <= 0 THEN a
    ELSE IF k \div 15 >= Len(a) THEN <<>>
    ELSE Trim([i \in 1..(Len(a) - (k \div 15)) |->
                  (Limb(a, i + (k \div 15)) \div 2^(k % 15))
                  + ((Limb(a, i + (k \div 15) + 1) % 2^(k % 15)) * 2^(15 - (k % 15)))])

\* a + b: digit i takes a carry when a digit below overflowed and every
\* digit between came to Base - 1
Plus(a, b) ==
    LET carry(i) ==
            \E j \in 1..(i - 1) :
                /\ Limb(a, j) + Limb(b, j) >= Base
                /\ \A k \in (j + 1)..(i - 1) : Limb(a, k) + Limb(b, k) = Base - 1
        longest == IF Len(a) > Len(b) THEN Len(a) ELSE Len(b)
    IN IF a = <<>> THEN b
       ELSE IF b = <<>> THEN a
       ELSE Trim([i \in 1..(longest + 1) |->
                     (Limb(a, i) + Limb(b, i) + (IF carry(i) THEN 1 ELSE 0)) % Base])

\* a - b, for a >= b
Minus(a, b) ==
    LET borrow(i) ==
            \E j \in 1..(i - 1) :
                /\ Limb(a, j) < Limb(b, j)
                /\ \A k \in (j + 1)..(i - 1) : Limb(a, k) = Limb(b, k)
    IN IF b = <<>> THEN a
       ELSE Trim([i \in 1..Len(a) |->
                     (Base + Limb(a, i) - Limb(b, i) - (IF borrow(i) THEN 1 ELSE 0))
                     % Base])

\* a < b
Less(a, b) ==
    IF Len(a) # Len(b) THEN Len(a) < Len(b)
    ELSE \E i \in 1..Len(a) :
             a[i] < b[i] /\ \A k \in (i + 1)..Len(a) : a[k] = b[k]

\* a * c, for c < Base
MulSmall(a, c) ==
    IF a = <<>> \/ c = 0 THEN <<>>
    ELSE Plus(Trim([i \in 1..Len(a) |-> (a[i] * c) % Base]),
              Trim(<<0>> \o [i \in 1..Len(a) |-> (a[i] * c) \div Base]))

\* a * b, as the sum of a times each digit of b from lo to hi
RECURSIVE MulDigits(_, _, _, _)
MulDigits(a, b, lo, hi) ==
    IF lo > hi THEN <<>>
    ELSE IF lo = hi THEN Shl(MulSmall(a, b[lo]), 15 * (lo - 1))
    ELSE Plus(MulDigits(a, b, lo, (lo + hi) \div 2),
              MulDigits(a, b, ((lo + hi) \div 2) + 1, hi))
Mul(a, b) == IF a = <<>> \/ b = <<>> THEN <<>> ELSE MulDigits(a, b, 1, Len(b))

\* The quotient q and the remainder r of r * 2^n by d, for r < d
RECURSIVE DivPow2(_, _, _)
DivPow2(r, d, n) ==
    LET doubled(t) ==
            IF Less(t, d) THEN [q |-> <<>>, r |-> t] ELSE [q |-> <<1>>, r |-> Minus(t, d)]
        joined(hi, lo) == [q |-> Plus(Shl(hi.q, n \div 2), lo.q), r |-> lo.r]
        lower(hi) ==
            IF hi.r = <<>> THEN [q |-> Shl(hi.q, n \div 2), r |-> <<>>]
            ELSE joined(hi, DivPow2(hi.r, d, n \div 2))
    IN IF n <= 0 THEN [q |-> <<>>, r |-> r]
       ELSE IF n = 1 THEN doubled(Shl(r, 1))
       ELSE lower(DivPow2(r, d, n - (n \div 2)))

\* 5^k and x * 10^k
RECURSIVE Pow5(_)
Pow5(k) ==
    IF k <= 6 THEN <<5^k>> ELSE Mul(Pow5(k - (k \div 2)), Pow5(k \div 2))
TimesPow10(x, k) == IF k <= 0 THEN x ELSE Shl(Mul(x, Pow5(k)), k)

\* enum Value.  Every variant is a record of the same shape.  The f64 of a
\* Double is d: of class "Finite" it is m * 2^e, negated when neg, with m a
\* natural number that is odd, or zero with e = 0 (and -0 when neg); of class
\* "Infinite" it is inf or -inf; of class "NaN" it is NaN.
F64(class, negative, m, e) == [class |-> class, neg |-> negative, m |-> m, e |-> e]
DoubleOf(x) ==
    [kind |-> "Double", d |-> x, b |-> FALSE, s |-> "", f |-> FunctionNew]

\* The finite f64 that is m * 2^e, for an m of at most 53 binary digits
Finite(negative, m, e) ==
    IF m = <<>> THEN DoubleOf(F64("Finite", negative, <<>>, 0))
    ELSE DoubleOf(F64("Finite", negative, Shr(m, TrailingZeros(m)), e + TrailingZeros(m)))

\* Value::Double(n) of an integer n
Double(n) == Finite(n < 0, BitsOf(IF n < 0 THEN 0 - n ELSE n), 0)
Bool(v) ==
    [kind |-> "Bool", d |-> F64("Finite", FALSE, <<>>, 0), b |-> v, s |-> "",
     f |-> FunctionNew]
Nil ==
    [kind |-> "Nil", d |-> F64("Finite", FALSE, <<>>, 0), b |-> FALSE, s |-> "",
     f |-> FunctionNew]
String(v) ==
    [kind |-> "String", d |-> F64("Finite", FALSE, <<>>, 0), b |-> FALSE, s |-> v,
     f |-> FunctionNew]
FunctionValue(fn) ==
    [kind |-> "Function", d |-> F64("Finite", FALSE, <<>>, 0), b |-> FALSE, s |-> "",
     f |-> fn]

\* The f64 values that are not a number or not finite, and the zeros
NaN == DoubleOf(F64("NaN", FALSE, <<>>, 0))
Infinity(negative) == DoubleOf(F64("Infinite", negative, <<>>, 0))
Zero(negative) == Finite(negative, <<>>, 0)

IsNaN(v) == v.d.class = "NaN"
IsInfinite(v) == v.d.class = "Infinite"
IsZero(v) == v.d.class = "Finite" /\ v.d.m = <<>>

\* The f64 nearest to n * 2^e, a tie going to the even mantissa: 53 binary
\* digits are kept, fewer below 2^-1022 where the last digit kept is that of
\* 2^-1074; from 2^1024 on the result is an infinity.  A value that n * 2^e
\* only approaches from below is given with an n of 56 digits or more.
RoundF64(negative, n, e) ==
    LET ranged(m, x) ==
            IF m # <<>> /\ BitLen(m) + x > 1024 THEN Infinity(negative)
            ELSE Finite(negative, m, x)
        rounded(kept, up, x) ==
            ranged(IF up THEN Plus(kept, <<1>>) ELSE kept, x)
        dropping(drop) ==
            IF drop <= 0 THEN ranged(n, e)
            ELSE rounded(Shr(n, drop),
                         /\ TestBit(n, drop - 1) = 1
                         /\ \/ TestBit(n, drop) = 1
                            \/ ~LowBitsZero(n, drop - 1),
                         e + drop)
    IN dropping(IF BitLen(n) - 53 > (0 - 1074) - e THEN BitLen(n) - 53
                ELSE (0 - 1074) - e)

\* -v on f64
NegateOp(v) == IF IsNaN(v) THEN NaN ELSE [v EXCEPT !.d.neg = ~@]

\* a + b on f64
AddOp(a, b) ==
    LET sum(x, y, e) ==
            IF a.d.neg = b.d.neg THEN RoundF64(a.d.neg, Plus(x, y), e)
            ELSE IF x = y THEN Zero(FALSE)
            ELSE IF Less(x, y) THEN RoundF64(b.d.neg, Minus(y, x), e)
            ELSE RoundF64(a.d.neg, Minus(x, y), e)
        aligned(e) == sum(Shl(a.d.m, a.d.e - e), Shl(b.d.m, b.d.e - e), e)
    IN IF IsNaN(a) \/ IsNaN(b) THEN NaN
       ELSE IF IsInfinite(a) /\ IsInfinite(b) THEN (IF a.d.neg = b.d.neg THEN a ELSE NaN)
       ELSE IF IsInfinite(a) THEN a
       ELSE IF IsInfinite(b) THEN b
       ELSE IF IsZero(a) /\ IsZero(b) THEN Zero(a.d.neg /\ b.d.neg)
       ELSE IF IsZero(a) THEN b
       ELSE IF IsZero(b) THEN a
       ELSE aligned(IF a.d.e < b.d.e THEN a.d.e ELSE b.d.e)

\* a < b on f64
LessThan(a, b) ==
    LET top(v) == BitLen(v.d.m) + v.d.e
        low(x, y) == IF x.d.e < y.d.e THEN x.d.e ELSE y.d.e
        \* |x| < |y| of finite values that are not zero
        smaller(x, y) ==
            IF top(x) # top(y) THEN top(x) < top(y)
            ELSE Less(Shl(x.d.m, x.d.e - low(x, y)), Shl(y.d.m, y.d.e - low(x, y)))
    IN /\ ~IsNaN(a)
       /\ ~IsNaN(b)
       /\ ~(IsZero(a) /\ IsZero(b))
       /\ IF IsInfinite(a) THEN a.d.neg /\ ~(IsInfinite(b) /\ b.d.neg)
          ELSE IF IsInfinite(b) THEN ~b.d.neg
          ELSE IF IsZero(a) THEN ~b.d.neg
          ELSE IF IsZero(b) THEN a.d.neg
          ELSE IF a.d.neg # b.d.neg THEN a.d.neg
          ELSE IF a.d.neg THEN smaller(b, a)
          ELSE smaller(a, b)

\* a == b on f64: NaN equals nothing and -0 equals 0
DoubleEq(a, b) ==
    /\ ~IsNaN(a)
    /\ ~IsNaN(b)
    /\ \/ IsZero(a) /\ IsZero(b)
       \/ a.d = b.d

\* core::num::flt2dec::decode of a finite f64 that is not zero: the value is
\* mant * 2^exp, and every number from (mant - minus) * 2^exp to
\* (mant + plus) * 2^exp rounds to it, the two ends as well when inclusive.
\* mant is the mantissa of 53 digits doubled; it is quadrupled where it is
\* 2^52, the f64 below being half as far as the one above; below 2^-1022 it
\* is the value in units of 2^-1075.
Decode(x) ==
    IF BitLen(x.m) + x.e - 1 < 0 - 1022
    THEN [mant |-> Shl(x.m, x.e + 1075), minus |-> <<1>>, plus |-> <<1>>,
          exp |-> 0 - 1075, inclusive |-> TRUE]
    ELSE IF x.m = <<1>>
    THEN [mant |-> Shl(x.m, 54), minus |-> <<1>>, plus |-> <<2>>,
          exp |-> x.e - 54, inclusive |-> TRUE]
    ELSE [mant |-> Shl(x.m, 54 - BitLen(x.m)), minus |-> <<1>>, plus |-> <<1>>,
          exp |-> x.e - (54 - BitLen(x.m)), inclusive |-> BitLen(x.m) < 53]

\* estimate_scaling_factor: ((nbits + exp) * 1292913986) >> 32, the factor
\* taken in two halves of 16 digits
EstimateScalingFactor(mant, exp) ==
    LET shifted(x) == (x * 19728 + ((x * 19778) \div 65536)) \div 65536
    IN shifted(BitLen(Minus(mant, <<1>>)) + exp)

\* round_up: the digits with one added to the last, and whether they were
\* all 9
RECURSIVE RoundUp(_, _)
RoundUp(digits, i) ==
    IF i = 0 THEN [digits |-> [digits EXCEPT ![1] = 1], carried |-> TRUE]
    ELSE IF digits[i] < 9
    THEN [digits |-> [digits EXCEPT ![i] = @ + 1], carried |-> FALSE]
    ELSE RoundUp([digits EXCEPT ![i] = 0], i - 1)

\* div_rem_upto_16: the quotient, below 16, and the remainder of x by scale
DivRemUpto16(x, scale) ==
    LET step(acc, shift, weight) ==
            IF Less(acc.r, Shl(scale, shift)) THEN acc
            ELSE [q |-> acc.q + weight, r |-> Minus(acc.r, Shl(scale, shift))]
    IN step(step(step(step([q |-> 0, r |-> x], 3, 8), 2, 4), 1, 2), 0, 1)

\* The loop of format_shortest (flt2dec::strategy::dragon): digits of
\* mant / scale are generated until they name the f64 alone, and the last is
\* rounded up where that is nearer
RECURSIVE DragonDigits(_, _, _, _, _, _, _)
DragonDigits(mant, minus, plus, scale, inclusive, k, digits) ==
    LET within(x, y) == IF inclusive THEN ~Less(y, x) ELSE Less(x, y)
        carried(r) ==
            IF r.carried THEN [digits |-> Append(r.digits, 0), k |-> k + 1]
            ELSE [digits |-> r.digits, k |-> k]
        finished(buf, up) ==
            IF up THEN carried(RoundUp(buf, Len(buf))) ELSE [digits |-> buf, k |-> k]
        generated(d, r) ==
            IF within(r, minus) \/ within(scale, Plus(r, plus))
            THEN finished(Append(digits, d),
                          /\ within(scale, Plus(r, plus))
                          /\ (~within(r, minus) \/ ~Less(Shl(r, 1), scale)))
            ELSE DragonDigits(MulSmall(r, 10), MulSmall(minus, 10),
                              MulSmall(plus, 10), scale, inclusive, k,
                              Append(digits, d))
        divided(qr) == generated(qr.q, qr.r)
    IN divided(DivRemUpto16(mant, scale))

\* flt2dec::strategy::dragon::format_shortest: the shortest digits that name
\* the f64, and the power of ten k of 0.digits * 10^k
FormatShortest(x) ==
    LET within(inclusive, a, b) == IF inclusive THEN ~Less(b, a) ELSE Less(a, b)
        fixed(d, mant, minus, plus, scale, k) ==
            IF within(d.inclusive, scale, Plus(mant, plus))
            THEN DragonDigits(mant, minus, plus, scale, d.inclusive, k + 1, <<>>)
            ELSE DragonDigits(MulSmall(mant, 10), MulSmall(minus, 10),
                              MulSmall(plus, 10), scale, d.inclusive, k, <<>>)
        scaled(d, mant, minus, plus, scale, k) ==
            IF k >= 0 THEN fixed(d, mant, minus, plus, TimesPow10(scale, k), k)
            ELSE fixed(d, TimesPow10(mant, 0 - k), TimesPow10(minus, 0 - k),
                       TimesPow10(plus, 0 - k), scale, k)
        estimated(d, k) ==
            IF d.exp < 0
            THEN scaled(d, d.mant, d.minus, d.plus, Shl(<<1>>, 0 - d.exp), k)
            ELSE scaled(d, Shl(d.mant, d.exp), Shl(d.minus, d.exp), Shl(d.plus, d.exp),
                        <<1>>, k)
        decoded(d) == estimated(d, EstimateScalingFactor(Plus(d.mant, d.plus), d.exp))
    IN decoded(Decode(x))

\* The digits from `from` to `to` as text, "0" past the last one
RECURSIVE DigitsText(_, _, _)
DigitsText(digits, from, to) ==
    IF from > to THEN ""
    ELSE IF from = to THEN (IF from <= Len(digits) THEN ToString(digits[from]) ELSE "0")
    ELSE DigitsText(digits, from, (from + to) \div 2)
         \o DigitsText(digits, ((from + to) \div 2) + 1, to)

\* flt2dec::digits_to_dec_str with frac_digits = 0: 0.digits * 10^exp written
\* without an exponent
DigitsToDecStr(digits, exp) ==
    IF exp <= 0
    THEN "0." \o DigitsText(<<>>, 1, 0 - exp) \o DigitsText(digits, 1, Len(digits))
    ELSE IF exp < Len(digits)
    THEN DigitsText(digits, 1, exp) \o "." \o DigitsText(digits, exp + 1, Len(digits))
    ELSE DigitsText(digits, 1, exp)

\* impl Display for f64 ({v} without a precision): "NaN", "inf", "0" or the
\* shortest digits, after "-" for a negative value and for -0
DoubleDisplay(v) ==
    LET written(r) == DigitsToDecStr(r.digits, r.k)
    IN IF IsNaN(v) THEN "NaN"
       ELSE (IF v.d.neg THEN "-" ELSE "")
            \o (IF IsInfinite(v) THEN "inf"
                ELSE IF IsZero(v) THEN "0"
                ELSE written(FormatShortest(v.d)))

\* an is_falsey for which only nil is falsey
is_falsey_nil(v) == v.kind = "Nil"

\* Value::is_falsey
is_falsey(v) ==
    CASE v.kind = "Bool" -> ~v.b
      [] v.kind = "Nil" -> TRUE
      [] OTHER -> FALSE

\* impl PartialEq for Value
ValueEq(l, r) ==
    CASE l.kind = "Double" /\ r.kind = "Double" -> DoubleEq(l, r)
      [] l.kind = "Bool" /\ r.kind = "Bool" -> l.b = r.b
      [] l.kind = "String" /\ r.kind = "String" -> l.s = r.s
      [] l.kind = "Nil" /\ r.kind = "Nil" -> TRUE
      [] OTHER -> FALSE

\* impl Display for Function
FunctionDisplay(fn) ==
    IF fn.name # <<>> THEN "Function " \o fn.name[1] ELSE "<script>"

\* impl Display for Value
ValueDisplay(v) ==
    CASE v.kind = "Double" -> DoubleDisplay(v)
      [] v.kind = "Bool" -> IF v.b THEN "true" ELSE "false"
      [] v.kind = "Nil" -> "nil"
      [] v.kind = "String" -> v.s
      [] OTHER -> FunctionDisplay(v.f)

\* enum Instruction: [op, arg]; arg is 0 for the variants without a field.
I(op) == [op |-> op, arg |-> 0]
IA(op, arg) == [op |-> op, arg |-> arg]

\* #[derive(Debug)] of Instruction, the {i:?} of a message: the variant, and
\* for a variant with a field "Variant { field: value }"
InstructionDebug(i) ==
    LET field(name) == i.op \o " { " \o name \o ": " \o ToString(i.arg) \o " }"
    IN CASE i.op \in {"Constant", "LongConstant", "SetLocal", "GetLocal"} -> field("index")
         [] i.op \in {"DefineGlobal", "FetchGlobal", "SetGlobal"} -> field("name_index")
         [] i.op \in {"JumpIfFalse", "Jump", "JumpBack"} -> field("offset")
         [] i.op = "Call" -> field("arg_count")
         [] OTHER -> i.op

-----------------------------------------------------------------------------
(* Lines: run-length encoded line table *)

\* Lines::push
\* a push that opens a run for every line
LinesPushAppending(data, line) == Append(data, <<line, 1>>)

\* Lines::push
LinesPush(data, line) ==
    IF Len(data) > 0 /\ data[Len(data)][1] = line
    THEN [data EXCEPT ![Len(data)] = <<line, @[2] + 1>>]
    ELSE Append(data, <<line, 1>>)

RECURSIVE LinesGetFrom(_, _, _, _)
LinesGetFrom(data, index, k, offset) ==
    IF k > Len(data) THEN <<>>
    ELSE IF index < offset + data[k][2] THEN <<data[k][1]>>
    ELSE LinesGetFrom(data, index, k + 1, offset + data[k][2])

\* Lines::get
LinesGet(data, index) == LinesGetFrom(data, index, 1, 0)

-----------------------------------------------------------------------------
(* Chunk *)

\* Chunk::write
ChunkWrite(chunk, instruction, line) ==
    [chunk EXCEPT !.code = Append(@, instruction), !.lines = LinesPush(@, line)]

\* position(|c| *c == value): the first 0-based index holding an equal value
ConstantPosition(constants, value) ==
    LET first(hits) ==
            IF hits = {} THEN <<>>
            ELSE <<(CHOOSE i \in hits : \A j \in hits : i <= j) - 1>>
    IN first({i \in 1..Len(constants) : ValueEq(constants[i], value)})

\* a make_constant that pushes every value it is given
MakeConstantAppending(chunk, value) ==
    [chunk |-> [chunk EXCEPT !.constants = Append(@, value)],
     index |-> Len(chunk.constants)]

\* Chunk::make_constant
MakeConstant(chunk, value) ==
    LET made(existing) ==
            IF existing # <<>>
            THEN [chunk |-> chunk, index |-> existing[1]]
            ELSE [chunk |-> [chunk EXCEPT !.constants = Append(@, value)],
                  index |-> Len(chunk.constants)]
    IN made(ConstantPosition(chunk.constants, value))

\* Chunk::write_constant
WriteConstant(chunk, value, line) ==
    LET written(m) ==
            ChunkWrite(m.chunk,
                       IA(IF m.index > U8Max THEN "LongConstant" ELSE "Constant",
                          m.index),
                       line)
    IN written(MakeConstant(chunk, value))

\* patch_jump with the offset measured from the jump itself
PatchJumpFromJump(chunk, jump_offset) ==
    LET new_offset == Len(chunk.code) - jump_offset
        instruction == chunk.code[jump_offset + 1]
    IN IF instruction.op \in {"JumpIfFalse", "Jump"}
       THEN [chunk |-> [chunk EXCEPT !.code[jump_offset + 1].arg = new_offset],
             ok |-> TRUE, err |-> <<>>]
       ELSE [chunk |-> chunk, ok |-> FALSE,
             err |-> <<"Invalid instruction " \o InstructionDebug(instruction)
                       \o " found when trying to patch a jump">>]

\* Chunk::patch_jump: the chunk, and the message of the Err for an instruction
\* that is not a jump
PatchJump(chunk, jump_offset) ==
    LET new_offset == Len(chunk.code) - jump_offset - 1
        instruction == chunk.code[jump_offset + 1]
    IN IF instruction.op \in {"JumpIfFalse", "Jump"}
       THEN [chunk |-> [chunk EXCEPT !.code[jump_offset + 1].arg = new_offset],
             ok |-> TRUE, err |-> <<>>]
       ELSE [chunk |-> chunk, ok |-> FALSE,
             err |-> <<"Invalid instruction " \o InstructionDebug(instruction)
                       \o " found when trying to patch a jump">>]

-----------------------------------------------------------------------------
(* The virtual machine: src/src/vm/mod.rs *)

\* Result<(), InterpretErrors> of VM::interpret, and the abort of the process
\* by a Rust panic (index out of bounds, arithmetic overflow in a debug build).
ResultPending == [kind |-> "Pending", err |-> "", name |-> "", expected |-> 0, received |-> 0]
ResultOk == [kind |-> "Ok", err |-> "", name |-> "", expected |-> 0, received |-> 0]
ResultPanic == [kind |-> "Panic", err |-> "", name |-> "", expected |-> 0, received |-> 0]
PoppedEndOfStack ==
    [kind |-> "Err", err |-> "PoppedEndOfStack", name |-> "", expected |-> 0, received |-> 0]
InvalidRuntimeType ==
    [kind |-> "Err", err |-> "InvalidRuntimeType", name |-> "", expected |-> 0, received |-> 0]
UndefinedVariable(name) ==
    [kind |-> "Err", err |-> "UndefinedVariable", name |-> name, expected |-> 0, received |-> 0]
IncorrectArgumentCount(expected, received) ==
    [kind |-> "Err", err |-> "IncorrectArgumentCount", name |-> "",
     expected |-> expected, received |-> received]

\* Frame { function, ip: 0, stack_offset: 0 }
FrameNew(function) == [function |-> function, ip |-> 0, stack_offset |-> 0]

\* VM::pop: the stack after the pop, the value, and the error if it was empty
pop(st) ==
    IF Len(st) = 0
    THEN [stack |-> st, ok |-> FALSE, err |-> PoppedEndOfStack, v |-> Nil]
    ELSE [stack |-> SubSeq(st, 1, Len(st) - 1), ok |-> TRUE, err |-> ResultOk,
          v |-> st[Len(st)]]

\* VM::peek
peek(st) ==
    IF Len(st) = 0
    THEN [ok |-> FALSE, err |-> PoppedEndOfStack, v |-> Nil]
    ELSE [ok |-> TRUE, err |-> ResultOk, v |-> st[Len(st)]]

\* a pop_double that takes the value whatever its type
pop_double_any(st) == pop(st)

\* VM::pop_double: the value is popped before its type is looked at
pop_double(st) ==
    LET p == pop(st)
    IN IF ~p.ok THEN p
       ELSE IF p.v.kind = "Double" THEN p
       ELSE [p EXCEPT !.ok = FALSE, !.err = InvalidRuntimeType]

\* The frame on top of the frame stack (self.frames.last_mut())
CurrentFrame == frames[Len(frames)]

\* Frame::next_instruction returns Some(instruction)
HasInstruction ==
    /\ Len(frames) > 0
    /\ CurrentFrame.ip >= 0
    /\ CurrentFrame.ip < Len(CurrentFrame.function.chunk.code)

\* The instruction next_instruction returns
Instruction == CurrentFrame.function.chunk.code[CurrentFrame.ip + 1]

\* The dispatch loop has fetched an instruction with this opcode
Fetched(op) ==
    /\ vm_pc = "running"
    /\ steps < MaxSteps
    /\ HasInstruction
    /\ Instruction.op = op

\* Frame::next_instruction: self.ip += 1
Advanced == [frames EXCEPT ![Len(frames)].ip = @ + 1]

\* The loop goes round once more, nothing printed
Continue(new_frames) ==
    /\ frames' = new_frames
    /\ steps' = steps + 1
    /\ UNCHANGED <<stdout, vm_pc, result, settings, origin, compile_vars, unit_vars>>

\* println!("{a}"), and the loop goes round once more
Printed(text) ==
    /\ stdout' = Append(stdout, text)
    /\ frames' = Advanced
    /\ steps' = steps + 1
    /\ UNCHANGED <<vm_pc, result, settings, origin, compile_vars, unit_vars>>

\* The Err arm of VM::interpret: for frame in self.frames.iter().rev(), one
\* line "[line N] in location" with N = frame.function.chunk.line(frame.ip - 1)
\* and location the name of the function interpret was given, or "script".
\* Chunk::line panics (expect) for an index that has no line: ok is FALSE and
\* lines holds what was printed before.
RECURSIVE Stacktrace(_, _, _)
Stacktrace(fs, k, location) ==
    LET line(frame) == LinesGet(frame.function.chunk.lines, frame.ip - 1)
        printed(text, rest) == [lines |-> <<text>> \o rest.lines, ok |-> rest.ok]
    IN IF k = 0 THEN [lines |-> <<>>, ok |-> TRUE]
       ELSE IF fs[k].ip < 1 \/ line(fs[k]) = <<>> THEN [lines |-> <<>>, ok |-> FALSE]
       ELSE printed("[line " \o ToString(line(fs[k])[1]) \o "] in " \o location,
                    Stacktrace(fs, k - 1, location))

\* function.name.as_deref().unwrap_or("script") of the function given to interpret
Location(fs) == IF fs[1].function.name # <<>> THEN fs[1].function.name[1] ELSE "script"

\* an Err(e) that is noted while the loop goes on
AbortContinuing(e) ==
    /\ frames' = Advanced
    /\ vm_pc' = vm_pc
    /\ result' = e
    /\ steps' = steps + 1
    /\ UNCHANGED <<stdout, settings, origin, compile_vars, unit_vars>>

\* return Err(e) out of interpret_frame, for which interpret prints the stack
\* trace before it returns Err(e) itself; or a panic, which prints nothing
\* to stdout
Abort(e) ==
    /\ frames' = Advanced
    /\ vm_pc' = "returned"
    /\ \E trace \in {IF e.kind = "Err"
                      THEN Stacktrace(Advanced, Len(Advanced), Location(Advanced))
                      ELSE [lines |-> <<>>, ok |-> TRUE]} :
           /\ stdout' = stdout \o trace.lines
           /\ result' = IF trace.ok THEN e ELSE ResultPanic
    /\ steps' = steps + 1
    /\ UNCHANGED <<settings, origin, compile_vars, unit_vars>>

\* Frame::constant / Chunk::constant: &self.constants[index] panics out of range
HasConstant(index) == index < Len(CurrentFrame.function.chunk.constants)
Constant(index) == CurrentFrame.function.chunk.constants[index + 1]

\* HashMap::insert
MapInsert(map, name, value) ==
    [n \in (DOMAIN map) \cup {name} |-> IF n = name THEN value ELSE map[n]]

\* loop head: no frame, or the current frame has run off the end of its code
ExecEnd ==
    /\ vm_pc = "running"
    /\ steps < MaxSteps
    /\ ~HasInstruction
    /\ frames' = IF Len(frames) > 0 THEN Advanced ELSE frames
    /\ vm_pc' = "returned"
    /\ result' = ResultOk
    /\ steps' = steps + 1
    /\ UNCHANGED <<settings, globals, stack, captured_prints, stdout, origin,
                   compile_vars, unit_vars>>

\* Instruction::Return => {}
ExecReturn ==
    /\ Fetched("Return")
    /\ Continue(Advanced)
    /\ UNCHANGED <<globals, stack, captured_prints>>

\* Instruction::Constant and Instruction::LongConstant
PushConstant ==
    /\ IF HasConstant(Instruction.arg)
       THEN /\ stack' = Append(stack, Constant(Instruction.arg))
            /\ Continue(Advanced)
       ELSE /\ Abort(ResultPanic)
            /\ UNCHANGED stack
    /\ UNCHANGED <<globals, captured_prints>>

ExecConstant == Fetched("Constant") /\ PushConstant

ExecLongConstant == Fetched("LongConstant") /\ PushConstant

\* Instruction::Negate
ExecNegate ==
    /\ Fetched("Negate")
    /\ LET v == pop_double(stack)
       IN IF v.ok
          THEN /\ stack' = Append(v.stack, NegateOp(v.v))
               /\ Continue(Advanced)
          ELSE /\ stack' = v.stack
               /\ Abort(v.err)
    /\ UNCHANGED <<globals, captured_prints>>

\* Instruction::Add
ExecAdd ==
    /\ Fetched("Add")
    /\ LET b == pop(stack)
           a == pop(b.stack)
       IN IF ~b.ok THEN stack' = b.stack /\ Abort(b.err)
          ELSE IF ~a.ok THEN stack' = a.stack /\ Abort(a.err)
          ELSE IF a.v.kind = "Double" /\ b.v.kind = "Double"
          THEN stack' = Append(a.stack, AddOp(a.v, b.v)) /\ Continue(Advanced)
          ELSE IF a.v.kind = "String" /\ b.v.kind = "String"
          THEN stack' = Append(a.stack, String(a.v.s \o b.v.s)) /\ Continue(Advanced)
          ELSE stack' = a.stack /\ Abort(InvalidRuntimeType)
    /\ UNCHANGED <<globals, captured_prints>>

\* let b = self.pop_double()?; let a = self.pop_double()?; self.push(op(a, b))
BinaryDoubles(Op(_, _)) ==
    LET b == pop_double(stack)
        a == pop_double(b.stack)
    IN IF ~b.ok THEN stack' = b.stack /\ Abort(b.err)
       ELSE IF ~a.ok THEN stack' = a.stack /\ Abort(a.err)
       ELSE stack' = Append(a.stack, Op(a.v, b.v)) /\ Continue(Advanced)

\* a - b on f64
SubtractOp(a, b) == AddOp(a, NegateOp(b))

\* a * b on f64
MultiplyOp(a, b) ==
    IF IsNaN(a) \/ IsNaN(b) THEN NaN
    ELSE IF (IsInfinite(a) /\ IsZero(b)) \/ (IsZero(a) /\ IsInfinite(b)) THEN NaN
    ELSE IF IsInfinite(a) \/ IsInfinite(b) THEN Infinity(a.d.neg # b.d.neg)
    ELSE IF IsZero(a) \/ IsZero(b) THEN Zero(a.d.neg # b.d.neg)
    ELSE RoundF64(a.d.neg # b.d.neg, Mul(a.d.m, b.d.m), a.d.e + b.d.e)

\* a / b on f64: with b doubled s times to pass a, the quotient of a * 2^n
\* by it is taken to 55 binary digits or more, with one more digit that tells
\* whether a remainder was left
DivideOp(a, b) ==
    LET quotient(qr, k) ==
            RoundF64(a.d.neg # b.d.neg,
                     Plus(Shl(qr.q, 1), IF qr.r = <<>> THEN <<>> ELSE <<1>>),
                     a.d.e - b.d.e - k - 1)
        divided(s, n) == quotient(DivPow2(a.d.m, Shl(b.d.m, s), n), n - s)
        passed(s) == divided(s, 55 + BitLen(b.d.m) + s - BitLen(a.d.m))
    IN IF IsNaN(a) \/ IsNaN(b) THEN NaN
       ELSE IF (IsInfinite(a) /\ IsInfinite(b)) \/ (IsZero(a) /\ IsZero(b)) THEN NaN
       ELSE IF IsInfinite(a) \/ IsZero(b) THEN Infinity(a.d.neg # b.d.neg)
       ELSE IF IsInfinite(b) \/ IsZero(a) THEN Zero(a.d.neg # b.d.neg)
       ELSE passed(IF BitLen(a.d.m) >= BitLen(b.d.m)
                   THEN BitLen(a.d.m) - BitLen(b.d.m) + 1 ELSE 0)

\* Value::Bool(a > b) and Value::Bool(a < b)
GreaterOp(a, b) == Bool(LessThan(b, a))
LessOp(a, b) == Bool(LessThan(a, b))

\* Instruction::Subtract
ExecSubtract ==
    /\ Fetched("Subtract")
    /\ BinaryDoubles(SubtractOp)
    /\ UNCHANGED <<globals, captured_prints>>

\* Instruction::Multiply
ExecMultiply ==
    /\ Fetched("Multiply")
    /\ BinaryDoubles(MultiplyOp)
    /\ UNCHANGED <<globals, captured_prints>>

\* Instruction::Divide
ExecDivide ==
    /\ Fetched("Divide")
    /\ BinaryDoubles(DivideOp)
    /\ UNCHANGED <<globals, captured_prints>>

\* Instruction::Greater
ExecGreater ==
    /\ Fetched("Greater")
    /\ BinaryDoubles(GreaterOp)
    /\ UNCHANGED <<globals, captured_prints>>

\* Instruction::Less
ExecLess ==
    /\ Fetched("Less")
    /\ BinaryDoubles(LessOp)
    /\ UNCHANGED <<globals, captured_prints>>

\* Instruction::Not
ExecNot ==
    /\ Fetched("Not")
    /\ LET a == pop(stack)
       IN IF a.ok
          THEN stack' = Append(a.stack, Bool(is_falsey(a.v))) /\ Continue(Advanced)
          ELSE stack' = a.stack /\ Abort(a.err)
    /\ UNCHANGED <<globals, captured_prints>>

\* Instruction::Equal
ExecEqual ==
    /\ Fetched("Equal")
    /\ LET a == pop(stack)
           b == pop(a.stack)
       IN IF ~a.ok THEN stack' = a.stack /\ Abort(a.err)
          ELSE IF ~b.ok THEN stack' = b.stack /\ Abort(b.err)
          ELSE stack' = Append(b.stack, Bool(ValueEq(a.v, b.v))) /\ Continue(Advanced)
    /\ UNCHANGED <<globals, captured_prints>>

\* Instruction::Print
ExecPrint ==
    /\ Fetched("Print")
    /\ LET a == pop(stack)
       IN IF a.ok
          THEN /\ stack' = a.stack
               /\ IF settings.capture_prints
                  THEN /\ captured_prints' = Append(captured_prints, ValueDisplay(a.v))
                       /\ Continue(Advanced)
                  ELSE /\ Printed(ValueDisplay(a.v))
                       /\ UNCHANGED captured_prints
          ELSE /\ stack' = a.stack
               /\ Abort(a.err)
               /\ UNCHANGED captured_prints
    /\ UNCHANGED globals

\* Instruction::Pop
ExecPop ==
    /\ Fetched("Pop")
    /\ LET a == pop(stack)
       IN IF a.ok
          THEN stack' = a.stack /\ Continue(Advanced)
          ELSE stack' = a.stack /\ Abort(a.err)
    /\ UNCHANGED <<globals, captured_prints>>

\* Frame::fetch_constant_name: "Panic", "Err" (not a string) or "Ok"
ConstantNameKind(index) ==
    IF ~HasConstant(index) THEN "Panic"
    ELSE IF Constant(index).kind = "String" THEN "Ok"
    ELSE "Err"

\* Instruction::DefineGlobal
ExecDefineGlobal ==
    /\ Fetched("DefineGlobal")
    /\ LET k == ConstantNameKind(Instruction.arg)
           value == pop(stack)
       IN IF k = "Panic" THEN Abort(ResultPanic) /\ UNCHANGED <<stack, globals>>
          ELSE IF k = "Err" THEN Abort(InvalidRuntimeType) /\ UNCHANGED <<stack, globals>>
          ELSE IF ~value.ok THEN Abort(value.err) /\ UNCHANGED <<stack, globals>>
          ELSE /\ stack' = value.stack
               /\ globals' = MapInsert(globals, Constant(Instruction.arg).s, value.v)
               /\ Continue(Advanced)
    /\ UNCHANGED captured_prints

\* Instruction::FetchGlobal
ExecFetchGlobal ==
    /\ Fetched("FetchGlobal")
    /\ LET k == ConstantNameKind(Instruction.arg)
       IN IF k = "Panic" THEN Abort(ResultPanic) /\ UNCHANGED stack
          ELSE IF k = "Err" THEN Abort(InvalidRuntimeType) /\ UNCHANGED stack
          ELSE LET name == Constant(Instruction.arg).s
               IN IF name \in DOMAIN globals
                  THEN stack' = Append(stack, globals[name]) /\ Continue(Advanced)
                  ELSE Abort(UndefinedVariable(name)) /\ UNCHANGED stack
    /\ UNCHANGED <<globals, captured_prints>>

\* SetGlobal as HashMap::insert alone would do it: the name need not exist
ExecSetGlobalInserting ==
    /\ Fetched("SetGlobal")
    /\ LET k == ConstantNameKind(Instruction.arg)
           value == peek(stack)
       IN IF k = "Panic" THEN Abort(ResultPanic) /\ UNCHANGED globals
          ELSE IF k = "Err" THEN Abort(InvalidRuntimeType) /\ UNCHANGED globals
          ELSE IF ~value.ok THEN Abort(value.err) /\ UNCHANGED globals
          ELSE /\ globals' = MapInsert(globals, Constant(Instruction.arg).s, value.v)
               /\ Continue(Advanced)
    /\ UNCHANGED <<stack, captured_prints>>

\* SetGlobal taking its value with pop() where the code peeks
ExecSetGlobalPopping ==
    /\ Fetched("SetGlobal")
    /\ LET k == ConstantNameKind(Instruction.arg)
           value == pop(stack)
       IN IF k = "Panic" THEN Abort(ResultPanic) /\ UNCHANGED <<stack, globals>>
          ELSE IF k = "Err" THEN Abort(InvalidRuntimeType) /\ UNCHANGED <<stack, globals>>
          ELSE LET name == Constant(Instruction.arg).s
               IN IF name \notin DOMAIN globals
                  THEN Abort(UndefinedVariable(name)) /\ UNCHANGED <<stack, globals>>
                  ELSE IF ~value.ok THEN Abort(value.err) /\ UNCHANGED <<stack, globals>>
                  ELSE /\ globals' = MapInsert(globals, name, value.v)
                       /\ stack' = value.stack
                       /\ Continue(Advanced)
    /\ UNCHANGED captured_prints

\* Instruction::SetGlobal
ExecSetGlobal ==
    /\ Fetched("SetGlobal")
    /\ LET k == ConstantNameKind(Instruction.arg)
           value == peek(stack)
       IN IF k = "Panic" THEN Abort(ResultPanic) /\ UNCHANGED globals
          ELSE IF k = "Err" THEN Abort(InvalidRuntimeType) /\ UNCHANGED globals
          ELSE LET name == Constant(Instruction.arg).s
               IN IF name \notin DOMAIN globals
                  THEN Abort(UndefinedVariable(name)) /\ UNCHANGED globals
                  ELSE IF ~value.ok THEN Abort(value.err) /\ UNCHANGED globals
                  ELSE /\ globals' = MapInsert(globals, name, value.v)
                       /\ Continue(Advanced)
    /\ UNCHANGED <<stack, captured_prints>>

\* SetLocal indexing the stack from its bottom, the frame's offset left out
ExecSetLocalAbsolute ==
    /\ Fetched("SetLocal")
    /\ LET slot == Instruction.arg
           value == peek(stack)
       IN IF ~value.ok THEN Abort(value.err) /\ UNCHANGED stack
          ELSE IF slot >= Len(stack) THEN Abort(ResultPanic) /\ UNCHANGED stack
          ELSE stack' = [stack EXCEPT ![slot + 1] = value.v] /\ Continue(Advanced)
    /\ UNCHANGED <<globals, captured_prints>>

\* Instruction::SetLocal: self.stack[offset + index] = value panics out of range
ExecSetLocal ==
    /\ Fetched("SetLocal")
    /\ LET slot == CurrentFrame.stack_offset + Instruction.arg
           value == peek(stack)
       IN IF ~value.ok THEN Abort(value.err) /\ UNCHANGED stack
          ELSE IF slot >= Len(stack) THEN Abort(ResultPanic) /\ UNCHANGED stack
          ELSE stack' = [stack EXCEPT ![slot + 1] = value.v] /\ Continue(Advanced)
    /\ UNCHANGED <<globals, captured_prints>>

\* Instruction::GetLocal: self.stack[offset + index] panics out of range
ExecGetLocal ==
    /\ Fetched("GetLocal")
    /\ LET slot == CurrentFrame.stack_offset + Instruction.arg
       IN IF slot >= Len(stack) THEN Abort(ResultPanic) /\ UNCHANGED stack
          ELSE stack' = Append(stack, stack[slot + 1]) /\ Continue(Advanced)
    /\ UNCHANGED <<globals, captured_prints>>

\* JumpIfFalse taking its condition with pop() where the code peeks
ExecJumpIfFalsePopping ==
    /\ Fetched("JumpIfFalse")
    /\ LET top == pop(stack)
       IN IF ~top.ok THEN Abort(top.err) /\ UNCHANGED stack
          ELSE /\ stack' = top.stack
               /\ IF is_falsey(top.v)
                  THEN Continue([Advanced EXCEPT ![Len(frames)].ip = @ + Instruction.arg])
                  ELSE Continue(Advanced)
    /\ UNCHANGED <<globals, captured_prints>>

\* Instruction::JumpIfFalse
ExecJumpIfFalse ==
    /\ Fetched("JumpIfFalse")
    /\ LET top == peek(stack)
       IN IF ~top.ok THEN Abort(top.err)
          ELSE IF is_falsey(top.v)
          THEN Continue([Advanced EXCEPT ![Len(frames)].ip = @ + Instruction.arg])
          ELSE Continue(Advanced)
    /\ UNCHANGED <<globals, stack, captured_prints>>

\* Instruction::Jump
ExecJump ==
    /\ Fetched("Jump")
    /\ Continue([Advanced EXCEPT ![Len(frames)].ip = @ + Instruction.arg])
    /\ UNCHANGED <<globals, stack, captured_prints>>

\* Instruction::JumpBack.  ip -= offset with offset > ip overflows usize: a
\* debug build panics, a release build wraps to a huge ip, which the model
\* writes as the negative number ip - offset (Frame::next_instruction then
\* finds no instruction there).
ExecJumpBack ==
    /\ Fetched("JumpBack")
    /\ IF Instruction.arg <= CurrentFrame.ip + 1
       THEN Continue([Advanced EXCEPT ![Len(frames)].ip = @ - Instruction.arg])
       ELSE \E build \in {"debug", "release"} :
               IF build = "debug" THEN Abort(ResultPanic)
               ELSE Continue([Advanced EXCEPT ![Len(frames)].ip = @ - Instruction.arg])
    /\ UNCHANGED <<globals, stack, captured_prints>>

\* Call without the comparison of function.arity with arg_count
ExecCallUnchecked ==
    /\ Fetched("Call")
    /\ LET arg_count == Instruction.arg
       IN IF Len(stack) < arg_count + 1
          THEN \E build \in {"debug", "release"} :
                  IF build = "debug" THEN Abort(ResultPanic)
                  ELSE Abort(PoppedEndOfStack)
          ELSE LET function == stack[Len(stack) - arg_count - 1 + 1]
               IN IF function.kind # "Function" THEN Abort(InvalidRuntimeType)
                  ELSE Continue(Append(Advanced,
                          [function |-> function.f, ip |-> 0,
                           stack_offset |-> arg_count]))
    /\ UNCHANGED <<globals, stack, captured_prints>>

\* Instruction::Call.  stack.len() - arg_count - 1 overflows usize when the
\* stack holds fewer than arg_count + 1 values: a debug build panics, a release
\* build wraps to an index Vec::get answers with None.
ExecCall ==
    /\ Fetched("Call")
    /\ LET arg_count == Instruction.arg
       IN IF Len(stack) < arg_count + 1
          THEN \E build \in {"debug", "release"} :
                  IF build = "debug" THEN Abort(ResultPanic)
                  ELSE Abort(PoppedEndOfStack)
          ELSE LET function == stack[Len(stack) - arg_count - 1 + 1]
               IN IF function.kind # "Function" THEN Abort(InvalidRuntimeType)
                  ELSE IF function.f.arity # arg_count
                  THEN Abort(IncorrectArgumentCount(function.f.arity, arg_count))
                  ELSE Continue(Append(Advanced,
                          [function |-> function.f, ip |-> 0,
                           stack_offset |-> arg_count]))
    /\ UNCHANGED <<globals, stack, captured_prints>>

-----------------------------------------------------------------------------
(* The scanner, at the level of lexemes: src/src/compiler/tokens/scanner.rs *)
(* A source is a sequence of lexemes; the lexeme "\n" is a line break.     *)

\* Scanner::new: the keywords table
Keywords ==
    {"and", "class", "else", "false", "for", "fun", "if", "nil", "or", "print",
     "return", "super", "this", "true", "var", "while"}

\* Scanner::scan: the punctuation it matches
Punctuation ==
    {"(", ")", "{", "}", ";", ",", ".", "-", "+", "/", "*", "!", "!=", "=", "==",
     "<", "<=", ">", ">="}

\* The largest number literal of the sources explored
MaxLiteral == 12

\* c.is_ascii_digit(): the lexemes process_number accepts
IsNumberLexeme(w) == \E n \in 0..MaxLiteral : ToString(n) = w

\* String literals of the sources explored, as written and as scanned
\* (process_string_constant drops the quotes)
StringLiterals ==
    ("\"outer\"" :> "outer") @@ ("\"inner\"" :> "inner") @@ ("\"x\"" :> "x")
    @@ ("\"y\"" :> "y") @@ ("\"\"" :> "")

\* TokenType: [tag, text]; text is the payload of Identifier, String, Number
TokenType(tag, text) == [tag |-> tag, text |-> text]

\* Scanner::scan: characters it matches nowhere, as they are written in the
\* sources explored
UnexpectedCharacters == {"@"}

\* The TokenType of one lexeme; the tag Error stands for the Err of
\* Scanner::scan and its text for the message
ScanLexeme(w) ==
    IF w \in Keywords \cup Punctuation THEN TokenType(w, "")
    ELSE IF w \in UnexpectedCharacters THEN TokenType("Error", "Unexpected character " \o w)
    ELSE IF w \in DOMAIN StringLiterals THEN TokenType("String", StringLiterals[w])
    ELSE IF IsNumberLexeme(w) THEN TokenType("Number", w)
    ELSE TokenType("Identifier", w)

\* Scanner::scan called until Eof: the tokens, each with the line it is on
RECURSIVE ScanAll(_, _, _)
ScanAll(words, k, line) ==
    IF k > Len(words) THEN <<[token_type |-> TokenType("Eof", ""), line |-> line]>>
    ELSE IF words[k] = "\n" THEN ScanAll(words, k + 1, line + 1)
    ELSE <<[token_type |-> ScanLexeme(words[k]), line |-> line]>>
         \o ScanAll(words, k + 1, line)

-----------------------------------------------------------------------------
(* The parser driver: src/src/compiler/parser/mod.rs                       *)
(* A compilation state s holds the parser (toks, next, previous, current), *)
(* the compiler (function, function_type, locals, scope_depth) and err,    *)
(* the error an eyre::Result carries: <<>> for Ok, <<message>> for Err.    *)

IsOk(s) == s.err = <<>>
Fail(s, message) == [s EXCEPT !.err = <<message>>]

\* Scanner::scan on the tokens left; past the end it answers Eof again
ScanToken(s) == s.toks[IF s.next <= Len(s.toks) THEN s.next ELSE Len(s.toks)]

\* impl Display for ParserError with token: Some(token)
ParserErrorDisplay(token, err) ==
    "[line " \o ToString(token.line) \o "] Error"
    \o (IF token.token_type.tag = "Eof" THEN " at end" ELSE "") \o err

\* Parser::advance: when the scanner fails, previous and current stay, the
\* scanner is past the character and the error is
\* ParserError { err, token: Some(self.previous) }
advance(s) ==
    IF ScanToken(s).token_type.tag = "Error"
    THEN [s EXCEPT !.next = @ + 1,
                   !.err = <<ParserErrorDisplay(s.previous, ScanToken(s).token_type.text)>>]
    ELSE [s EXCEPT !.previous = s.current, !.current = ScanToken(s), !.next = @ + 1]

\* Parser::new and Compiler::new
CompilerNew(toks) ==
    [toks |-> toks, next |-> 2, previous |-> toks[1], current |-> toks[1],
     function |-> FunctionNew, function_type |-> "Script", locals |-> <<>>,
     scope_depth |-> 0, err |-> <<>>]

\* a new_for_function that keeps the first local slot for the callee
new_for_function_reserving(s, name) ==
    [s EXCEPT !.function = FunctionNewWithName(name),
              !.locals = <<[token |-> [token_type |-> TokenType("Identifier", ""),
                                       line |-> 0],
                            depth |-> 0, initialized |-> TRUE]>>,
              !.scope_depth = 0, !.function_type = "Function"]

\* Compiler::new_for_function, driving the parser of s
new_for_function(s, name) ==
    [s EXCEPT !.function = FunctionNewWithName(name), !.locals = <<>>,
              !.scope_depth = 0, !.function_type = "Function"]

\* Compiler::consume
consume(s, tag, message) ==
    IF s.current.token_type.tag = tag THEN advance(s) ELSE Fail(s, message)

\* Compiler::match_token: the state after, and whether the token matched
match_token(s, tag) ==
    IF s.current.token_type.tag = tag
    THEN [s |-> advance(s), matched |-> TRUE]
    ELSE [s |-> s, matched |-> FALSE]

\* self.current_chunk().write(instruction, line)
emit(s, instruction, line) ==
    [s EXCEPT !.function.chunk = ChunkWrite(@, instruction, line)]

\* Compiler::emit_constant
emit_constant(s, value, line) ==
    [s EXCEPT !.function.chunk = WriteConstant(@, value, line)]

\* self.current_chunk().write_jump(instruction, line): the state and the index
write_jump(s, instruction, line) ==
    [s |-> emit(s, instruction, line), index |-> Len(s.function.chunk.code)]

\* a patch_jump that leaves the jump as it was written
patch_jump_skipped(s, index) == s

\* self.current_chunk().patch_jump(index)?
patch_jump(s, index) ==
    LET patched(r) ==
            IF r.ok THEN [s EXCEPT !.function.chunk = r.chunk]
            ELSE Fail(s, r.err[1])
    IN patched(PatchJump(s.function.chunk, index))

-----------------------------------------------------------------------------
(* The compiler: src/src/compiler/mod.rs *)

\* enum Precedence
PrecNone == 0
PrecAssignment == 1
PrecOr == 2
PrecAnd == 3
PrecEquality == 4
PrecComparison == 5
PrecTerm == 6
PrecFactor == 7
PrecUnary == 8
PrecCall == 9
PrecPrimary == 10

\* Precedence::one_higher
one_higher(precedence) ==
    IF precedence = PrecPrimary THEN PrecPrimary ELSE precedence + 1

\* get_parse_rule: "" stands for None
ParseRule(prefix, infix, precedence) ==
    [prefix |-> prefix, infix |-> infix, precedence |-> precedence]

get_parse_rule(token_type) ==
    LET tag == token_type.tag
    IN CASE tag = "(" -> ParseRule("grouping", "call", PrecCall)
         [] tag = "-" -> ParseRule("unary", "binary", PrecTerm)
         [] tag = "+" -> ParseRule("", "binary", PrecTerm)
         [] tag = "/" -> ParseRule("", "binary", PrecFactor)
         [] tag = "*" -> ParseRule("", "binary", PrecFactor)
         [] tag = "Number" -> ParseRule("number", "", PrecNone)
         [] tag \in {"false", "true", "nil"} -> ParseRule("literal", "", PrecNone)
         [] tag = "!" -> ParseRule("unary", "", PrecNone)
         [] tag = "!=" -> ParseRule("", "binary", PrecEquality)
         [] tag = "==" -> ParseRule("", "binary", PrecEquality)
         [] tag \in {">", ">=", "<", "<="} -> ParseRule("", "binary", PrecComparison)
         [] tag = "String" -> ParseRule("string", "", PrecNone)
         [] tag = "Identifier" -> ParseRule("variable", "", PrecNone)
         [] tag = "and" -> ParseRule("", "and", PrecAnd)
         [] tag = "or" -> ParseRule("", "or", PrecOr)
         [] OTHER -> ParseRule("", "", PrecNone)

\* v.parse::<f64>() on the integral literals explored
ParseF64(text) == CHOOSE n \in 0..MaxLiteral : ToString(n) = text

\* Compiler::emit_return
emit_return(s) ==
    emit([s EXCEPT !.function.chunk = WriteConstant(@, Nil, s.current.line)],
         I("Return"), s.current.line)

\* Compiler::end_compile: the state s and the finished function
\* (std::mem::take leaves Function::default() behind)
end_compile(s) ==
    LET taken(s1) ==
            [s |-> [s1 EXCEPT !.function = FunctionNew], function |-> s1.function]
    IN taken(emit_return(s))

\* Compiler::synchronize
RECURSIVE synchronize(_)
synchronize(s) ==
    IF s.current.token_type.tag = "Eof" THEN s
    ELSE IF s.previous.token_type.tag = ";" THEN s
    ELSE IF s.current.token_type.tag \in
              {"class", "fun", "var", "for", "if", "while", "print", "return"}
    THEN s
    ELSE LET advanced(s1) == IF ~IsOk(s1) THEN s1 ELSE synchronize(s1)
         IN advanced(advance(s))

\* Compiler::begin_scope
begin_scope(s) == [s EXCEPT !.scope_depth = @ + 1]

\* the loop of Compiler::end_scope: write Pop, self.locals.pop()
RECURSIVE pop_locals(_, _)
pop_locals(s, count) ==
    IF count = 0 THEN s
    ELSE pop_locals(
            [emit(s, I("Pop"), s.current.line)
                EXCEPT !.locals = IF Len(@) > 0 THEN SubSeq(@, 1, Len(@) - 1) ELSE @],
            count - 1)

\* an end_scope that removes every local of the function
end_scope_all(s) ==
    pop_locals([s EXCEPT !.scope_depth = s.scope_depth - 1], Len(s.locals))

\* Compiler::end_scope
end_scope(s) ==
    LET scope_depth == s.scope_depth - 1
        local_to_pop ==
            Cardinality({i \in 1..Len(s.locals) : s.locals[i].depth > scope_depth})
    IN pop_locals([s EXCEPT !.scope_depth = scope_depth], local_to_pop)

\* Compiler::mark_initialized
mark_initialized(s) ==
    IF s.scope_depth = 0 THEN s
    ELSE IF Len(s.locals) > 0
    THEN [s EXCEPT !.locals[Len(s.locals)].initialized = TRUE]
    ELSE s

\* enum VariableInfo
VariableGlobal(name_index) ==
    [kind |-> "Global", name_index |-> name_index,
     token |-> [token_type |-> TokenType("Eof", ""), line |-> 0], depth |-> 0]
VariableLocal(token, depth) ==
    [kind |-> "Local", name_index |-> 0, token |-> token, depth |-> depth]

\* Compiler::parse_variable: the state s and the VariableInfo
parse_variable(s) ==
    IF s.current.token_type.tag = "Identifier"
    THEN LET identifier == s.current.token_type.text
             global(s1, m) ==
                 [s |-> [s1 EXCEPT !.function.chunk = m.chunk],
                  info |-> VariableGlobal(m.index)]
             advanced(s1) ==
                 IF ~IsOk(s1) THEN [s |-> s1, info |-> VariableGlobal(0)]
                 ELSE IF s1.scope_depth > 0
                 THEN [s |-> s1, info |-> VariableLocal(s1.previous, s1.scope_depth)]
                 ELSE global(s1, MakeConstant(s1.function.chunk, String(identifier)))
         IN advanced(advance(s))
    ELSE [s |-> Fail(s, "Expect identifier"), info |-> VariableGlobal(0)]

\* the loop of declare_variable without its break at the locals of the
\* enclosing scopes: every local of the function is compared
RECURSIVE already_declared_anywhere(_, _, _)
already_declared_anywhere(locals, k, info) ==
    IF k = 0 THEN FALSE
    ELSE IF locals[k].token.token_type = info.token.token_type THEN TRUE
    ELSE already_declared_anywhere(locals, k - 1, info)

\* the loop of Compiler::declare_variable over self.locals.iter().rev():
\* TRUE when a local of the same name is met before the loop breaks
RECURSIVE already_declared(_, _, _)
already_declared(locals, k, info) ==
    IF k = 0 THEN FALSE
    ELSE IF locals[k].initialized /\ locals[k].depth < info.depth THEN FALSE
    ELSE IF locals[k].token.token_type = info.token.token_type THEN TRUE
    ELSE already_declared(locals, k - 1, info)

\* the Local that Compiler::declare_variable pushes
NewLocal(info) == [token |-> info.token, depth |-> info.depth, initialized |-> FALSE]

\* Compiler::declare_variable
declare_variable(s, info) ==
    IF info.kind = "Local"
    THEN IF already_declared(s.locals, Len(s.locals), info)
         THEN Fail(s, "Already a variable with this name in this scope.")
         ELSE [s EXCEPT !.locals = Append(@, NewLocal(info))]
    ELSE s

\* Compiler::define_variable
define_variable(s, info) ==
    IF info.kind = "Global"
    THEN emit(s, IA("DefineGlobal", info.name_index), s.previous.line)
    ELSE mark_initialized(s)

\* position(...) where the code has rposition(...): the first 0-based index
ResolveLocalOutermost(locals, token_type) ==
    LET first(hits) ==
            IF hits = {} THEN <<>>
            ELSE <<(CHOOSE i \in hits : \A j \in hits : i <= j) - 1>>
    IN first({i \in 1..Len(locals) : locals[i].token.token_type = token_type})

\* rposition(|l| l.token.token_type == token_type): the last 0-based index
ResolveLocal(locals, token_type) ==
    LET last(hits) ==
            IF hits = {} THEN <<>>
            ELSE <<(CHOOSE i \in hits : \A j \in hits : i >= j) - 1>>
    IN last({i \in 1..Len(locals) : locals[i].token.token_type = token_type})

\* emit_loop with the offset measured up to the JumpBack, not past it
emit_loop_short(s, loop_start) ==
    LET offset == Len(s.function.chunk.code) - loop_start
    IN emit(s, IA("JumpBack", offset), s.previous.line)

\* Compiler::emit_loop
emit_loop(s, loop_start) ==
    LET offset == Len(s.function.chunk.code) - loop_start + 1
    IN emit(s, IA("JumpBack", offset), s.previous.line)

RECURSIVE self(_, _)

\* Compiler::expression
expression(s) == self("parse_precedence", <<s, PrecAssignment>>)

\* Compiler::number
number(s) ==
    IF s.previous.token_type.tag = "Number"
    THEN emit_constant(s, Double(ParseF64(s.previous.token_type.text)), s.previous.line)
    ELSE Fail(s, "Unexpected token type generating number")

\* Compiler::string
string(s) ==
    IF s.previous.token_type.tag = "String"
    THEN emit_constant(s, String(s.previous.token_type.text), s.previous.line)
    ELSE Fail(s, "Unexpected token type generating string")

\* Compiler::literal
literal(s) ==
    CASE s.previous.token_type.tag = "false" ->
            emit_constant(s, Bool(FALSE), s.previous.line)
      [] s.previous.token_type.tag = "true" ->
            emit_constant(s, Bool(TRUE), s.previous.line)
      [] s.previous.token_type.tag = "nil" ->
            emit_constant(s, Nil, s.previous.line)
      [] OTHER -> Fail(s, "Unexpected type in literal expression")

\* Compiler::named_variable (Compiler::variable calls nothing else)
named_variable(s, can_assign) ==
    IF s.previous.token_type.tag # "Identifier"
    THEN Fail(s, "Unexpected token type generating named variable")
    ELSE
    LET name == s.previous.token_type.text
        assigned(s2, set) ==
            IF ~IsOk(s2) THEN s2 ELSE emit(s2, set, s2.previous.line)
        access(eq, get, set) ==
            IF ~IsOk(eq.s) THEN eq.s
            ELSE IF eq.matched THEN assigned(self("expression", <<eq.s>>), set)
            ELSE emit(eq.s, get, eq.s.previous.line)
        opcodes(s1, get, set) ==
            access(IF can_assign THEN match_token(s1, "=")
                   ELSE [s |-> s1, matched |-> FALSE], get, set)
        global(m) ==
            opcodes([s EXCEPT !.function.chunk = m.chunk],
                    IA("FetchGlobal", m.index), IA("SetGlobal", m.index))
        resolved(local_position) ==
            IF local_position # <<>>
            THEN IF ~s.locals[local_position[1] + 1].initialized
                 THEN Fail(s, "Can't read local variable in its own initializer.")
                 ELSE opcodes(s, IA("GetLocal", local_position[1]),
                              IA("SetLocal", local_position[1]))
            ELSE global(MakeConstant(s.function.chunk, String(name)))
    IN resolved(ResolveLocal(s.locals, s.previous.token_type))

\* Compiler::grouping
grouping(s) ==
    LET grouped(s1) ==
            IF ~IsOk(s1) THEN s1 ELSE consume(s1, ")", "Expect ')' after expression.")
    IN grouped(self("expression", <<s>>))

\* the loop of Compiler::argument_list: the state s and the count
argument_loop(s, count) ==
    LET more(comma) ==
            IF ~IsOk(comma.s) THEN [s |-> comma.s, count |-> count]
            ELSE IF comma.matched THEN self("argument_loop", <<comma.s, count + 1>>)
            ELSE [s |-> comma.s, count |-> count + 1]
        parsed(s1) ==
            IF ~IsOk(s1) THEN [s |-> s1, count |-> count]
            ELSE more(match_token(s1, ","))
    IN parsed(self("expression", <<s>>))

\* Compiler::argument_list: the state s and the count
argument_list(s) ==
    LET closed(r) ==
            IF ~IsOk(r.s) THEN r
            ELSE [s |-> consume(r.s, ")", "Expect ')' after arguments."),
                  count |-> r.count]
    IN closed(IF s.current.token_type.tag # ")" THEN self("argument_loop", <<s, 0>>)
              ELSE [s |-> s, count |-> 0])

\* Compiler::call
call(s) ==
    LET listed(r) ==
            IF ~IsOk(r.s) THEN r.s
            ELSE emit(r.s, IA("Call", r.count), r.s.previous.line)
    IN listed(self("argument_list", <<s>>))

\* Compiler::unary
unary(s) ==
    LET operator_type == s.previous.token_type
        operand(s1) ==
            IF ~IsOk(s1) THEN s1
            ELSE CASE operator_type.tag = "-" -> emit(s1, I("Negate"), s1.previous.line)
                   [] operator_type.tag = "!" -> emit(s1, I("Not"), s1.previous.line)
                   [] OTHER -> Fail(s1, "Unexpected operator type in unary expression")
    IN operand(self("parse_precedence", <<s, PrecUnary>>))

\* Compiler::binary
binary(s) ==
    LET tag == s.previous.token_type.tag
        operand(s1, line) ==
            IF ~IsOk(s1) THEN s1
            ELSE CASE tag = "+" -> emit(s1, I("Add"), line)
                   [] tag = "-" -> emit(s1, I("Subtract"), line)
                   [] tag = "*" -> emit(s1, I("Multiply"), line)
                   [] tag = "/" -> emit(s1, I("Divide"), line)
                   [] tag = "!=" -> emit(emit(s1, I("Equal"), line), I("Not"), line)
                   [] tag = "==" -> emit(s1, I("Equal"), line)
                   [] tag = ">" -> emit(s1, I("Greater"), line)
                   [] tag = ">=" -> emit(emit(s1, I("Less"), line), I("Not"), line)
                   [] tag = "<" -> emit(s1, I("Less"), line)
                   [] tag = "<=" -> emit(emit(s1, I("Greater"), line), I("Not"), line)
                   [] OTHER -> Fail(s1, "Unexpected operator type in binary expression")
        parsed(s1) == operand(s1, s1.previous.line)
        ruled(rule) ==
            parsed(self("parse_precedence", <<s, one_higher(rule.precedence)>>))
    IN ruled(get_parse_rule(s.previous.token_type))

\* Compiler::and
and(s) ==
    LET right(s2, end_jump) ==
            IF ~IsOk(s2) THEN s2 ELSE patch_jump(s2, end_jump)
        jumped(end_jump) ==
            right(self("parse_precedence",
                       <<emit(end_jump.s, I("Pop"), s.previous.line), PrecAnd>>),
                  end_jump.index)
    IN jumped(write_jump(s, IA("JumpIfFalse", 0), s.previous.line))

\* Compiler::or
or(s) ==
    LET right(s3, end_jump) ==
            IF ~IsOk(s3) THEN s3 ELSE patch_jump(s3, end_jump)
        patched(s1, end_jump) ==
            IF ~IsOk(s1) THEN s1
            ELSE right(self("parse_precedence",
                            <<emit(s1, I("Pop"), s.previous.line), PrecOr>>),
                       end_jump)
        end_jumped(else_jump, end_jump) ==
            patched(patch_jump(end_jump.s, else_jump), end_jump.index)
        else_jumped(else_jump) ==
            end_jumped(else_jump.index,
                       write_jump(else_jump.s, IA("Jump", 0), s.previous.line))
    IN else_jumped(write_jump(s, IA("JumpIfFalse", 0), s.previous.line))

\* the prefix rules, a variable always allowed to take an assignment
prefix_rule_assigning(rule, s, can_assign) ==
    CASE rule = "grouping" -> self("grouping", <<s>>)
      [] rule = "unary" -> self("unary", <<s>>)
      [] rule = "number" -> number(s)
      [] rule = "literal" -> literal(s)
      [] rule = "string" -> string(s)
      [] rule = "variable" -> self("named_variable", <<s, TRUE>>)

\* the prefix rules of get_parse_rule
prefix_rule(rule, s, can_assign) ==
    CASE rule = "grouping" -> self("grouping", <<s>>)
      [] rule = "unary" -> self("unary", <<s>>)
      [] rule = "number" -> number(s)
      [] rule = "literal" -> literal(s)
      [] rule = "string" -> string(s)
      [] rule = "variable" -> self("named_variable", <<s, can_assign>>)

\* the infix rules of get_parse_rule
infix_rule(rule, s, can_assign) ==
    CASE rule = "call" -> self("call", <<s>>)
      [] rule = "binary" -> self("binary", <<s>>)
      [] rule = "and" -> self("and", <<s>>)
      [] rule = "or" -> self("or", <<s>>)

\* the while loop of Compiler::parse_precedence
infix_loop(s, precedence, can_assign) ==
    IF precedence <= get_parse_rule(s.current.token_type).precedence
    THEN LET applied(s2) ==
                 IF ~IsOk(s2) THEN s2
                 ELSE self("infix_loop", <<s2, precedence, can_assign>>)
             ruled(s1, rule) ==
                 IF rule.infix = "" THEN Fail(s1, "Expect expression")
                 ELSE applied(self("infix_rule", <<rule.infix, s1, can_assign>>))
             advanced(s1) ==
                 IF ~IsOk(s1) THEN s1
                 ELSE ruled(s1, get_parse_rule(s1.previous.token_type))
         IN advanced(advance(s))
    ELSE s

\* Compiler::parse_precedence
parse_precedence(s, precedence) ==
    LET can_assign == precedence <= PrecAssignment
        target(eq) ==
            IF ~IsOk(eq.s) THEN eq.s
            ELSE IF eq.matched THEN Fail(eq.s, "Invalid assignment target.") ELSE eq.s
        looped(s3) ==
            IF ~IsOk(s3) THEN s3
            ELSE target(IF can_assign THEN match_token(s3, "=")
                        ELSE [s |-> s3, matched |-> FALSE])
        prefixed(s2) ==
            IF ~IsOk(s2) THEN s2
            ELSE looped(self("infix_loop", <<s2, precedence, can_assign>>))
        ruled(s1, rule) ==
            IF rule.prefix = "" THEN Fail(s1, "Expect expression")
            ELSE prefixed(self("prefix_rule", <<rule.prefix, s1, can_assign>>))
        advanced(s1) ==
            IF ~IsOk(s1) THEN s1 ELSE ruled(s1, get_parse_rule(s1.previous.token_type))
    IN advanced(advance(s))

\* Compiler::print_statement
print_statement(s) ==
    LET consumed(s2) ==
            IF ~IsOk(s2) THEN s2 ELSE emit(s2, I("Print"), s2.previous.line)
        value(s1) ==
            IF ~IsOk(s1) THEN s1 ELSE consumed(consume(s1, ";", "Expect ';' after value."))
    IN value(self("expression", <<s>>))

\* Compiler::expression_statement
expression_statement(s) ==
    LET consumed(s2) ==
            IF ~IsOk(s2) THEN s2 ELSE emit(s2, I("Pop"), s2.previous.line)
        value(s1) ==
            IF ~IsOk(s1) THEN s1
            ELSE consumed(consume(s1, ";", "Expect ';' after expression."))
    IN value(self("expression", <<s>>))

\* return_statement without the test of self.function_type
return_statement_anywhere(s) ==
    LET consumed(s2) ==
            IF ~IsOk(s2) THEN s2 ELSE emit(s2, I("Return"), s2.current.line)
        value(s1) ==
            IF ~IsOk(s1) THEN s1
            ELSE consumed(consume(s1, ";", "Expect ';' after return value."))
        rest(semi) ==
            IF ~IsOk(semi.s) THEN semi.s
            ELSE IF semi.matched THEN emit_return(semi.s)
            ELSE value(self("expression", <<semi.s>>))
    IN rest(match_token(s, ";"))

\* Compiler::return_statement
return_statement(s) ==
    IF s.function_type = "Script" THEN Fail(s, "Can't return from top-level code.")
    ELSE LET consumed(s2) ==
                 IF ~IsOk(s2) THEN s2 ELSE emit(s2, I("Return"), s2.current.line)
             value(s1) ==
                 IF ~IsOk(s1) THEN s1
                 ELSE consumed(consume(s1, ";", "Expect ';' after return value."))
             rest(semi) ==
                 IF ~IsOk(semi.s) THEN semi.s
                 ELSE IF semi.matched THEN emit_return(semi.s)
                 ELSE value(self("expression", <<semi.s>>))
         IN rest(match_token(s, ";"))

\* Compiler::while_statement
while_statement(s) ==
    LET loop_start == Len(s.function.chunk.code)
        patched(s7) ==
            IF ~IsOk(s7) THEN s7 ELSE emit(s7, I("Pop"), s7.previous.line)
        body(s5, exit_jump) ==
            IF ~IsOk(s5) THEN s5
            ELSE patched(patch_jump(emit_loop(s5, loop_start), exit_jump))
        jumped(exit_jump, line) ==
            body(self("statement", <<emit(exit_jump.s, I("Pop"), line)>>),
                 exit_jump.index)
        closed(s3) ==
            IF ~IsOk(s3) THEN s3
            ELSE jumped(write_jump(s3, IA("JumpIfFalse", 0), s3.previous.line),
                        s3.previous.line)
        condition(s2) ==
            IF ~IsOk(s2) THEN s2
            ELSE closed(consume(s2, ")", "Expect ')' after condition."))
        opened(s1) ==
            IF ~IsOk(s1) THEN s1 ELSE condition(self("expression", <<s1>>))
    IN opened(consume(s, "(", "Expect '(' after 'while'."))

\* Compiler::for_statement, from the body on: self.statement, the loop back,
\* the exit jump and end_scope
for_body(s, loop_start, exit_jump) ==
    LET patched(s3) ==
            IF ~IsOk(s3) THEN s3
            ELSE end_scope(IF exit_jump = <<>> THEN s3
                           ELSE emit(s3, I("Pop"), s3.previous.line))
        looped(s2) ==
            patched(IF exit_jump = <<>> THEN s2 ELSE patch_jump(s2, exit_jump[1]))
        body(s1) ==
            IF ~IsOk(s1) THEN s1 ELSE looped(emit_loop(s1, loop_start))
    IN body(self("statement", <<s>>))

\* Compiler::for_statement, from the increment clause on
for_increment(s, loop_start, exit_jump) ==
    LET patched(s5, increment_start) ==
            IF ~IsOk(s5) THEN s5
            ELSE self("for_body", <<s5, increment_start, exit_jump>>)
        closed(s3, body_jump, increment_start) ==
            IF ~IsOk(s3) THEN s3
            ELSE patched(patch_jump(emit_loop(s3, loop_start), body_jump),
                         increment_start)
        increment(s1, body_jump, increment_start) ==
            IF ~IsOk(s1) THEN s1
            ELSE closed(consume(emit(s1, I("Pop"), s1.previous.line), ")",
                                "Expect ')' after for clauses."),
                        body_jump, increment_start)
        jumped(body_jump) ==
            increment(self("expression", <<body_jump.s>>), body_jump.index,
                      Len(body_jump.s.function.chunk.code))
        rest(paren) ==
            IF ~IsOk(paren.s) THEN paren.s
            ELSE IF paren.matched THEN self("for_body", <<paren.s, loop_start, exit_jump>>)
            ELSE jumped(write_jump(paren.s, IA("Jump", 0), paren.s.previous.line))
    IN rest(match_token(s, ")"))

\* Compiler::for_statement, from the condition clause on
for_condition(s) ==
    LET loop_start == Len(s.function.chunk.code)
        jumped(exit_jump, line) ==
            self("for_increment",
                 <<emit(exit_jump.s, I("Pop"), line), loop_start, <<exit_jump.index>> >>)
        consumed(s2) ==
            IF ~IsOk(s2) THEN s2
            ELSE jumped(write_jump(s2, IA("JumpIfFalse", 0), s2.previous.line),
                        s2.previous.line)
        condition(s1) ==
            IF ~IsOk(s1) THEN s1
            ELSE consumed(consume(s1, ";", "Expect ';' after loop condition."))
        rest(semi) ==
            IF ~IsOk(semi.s) THEN semi.s
            ELSE IF semi.matched THEN self("for_increment", <<semi.s, loop_start, <<>> >>)
            ELSE condition(self("expression", <<semi.s>>))
    IN rest(match_token(s, ";"))

\* Compiler::for_statement
for_statement(s) ==
    LET initialized(s2) ==
            IF ~IsOk(s2) THEN s2 ELSE self("for_condition", <<s2>>)
        initializer(s1, semi, var) ==
            IF semi.matched THEN semi.s
            ELSE IF ~IsOk(var.s) THEN var.s
            ELSE IF var.matched THEN self("variable_declaration", <<var.s>>)
            ELSE self("expression_statement", <<s1>>)
        opened(s1) ==
            IF ~IsOk(s1) THEN s1
            ELSE initialized(initializer(s1, match_token(s1, ";"),
                                         match_token(s1, "var")))
    IN opened(consume(begin_scope(s), "(", "Expect '(' after 'for'."))

\* Compiler::if_statement
if_statement(s) ==
    LET else_branch(s8, else_jump) ==
            IF ~IsOk(s8) THEN s8 ELSE patch_jump(s8, else_jump)
        else_matched(e, else_jump) ==
            else_branch(IF IsOk(e.s) /\ e.matched THEN self("statement", <<e.s>>)
                        ELSE e.s,
                        else_jump)
        then_patched(s6, else_jump) ==
            IF ~IsOk(s6) THEN s6
            ELSE else_matched(match_token(emit(s6, I("Pop"), s6.previous.line), "else"),
                              else_jump)
        else_jumped(else_jump, then_jump) ==
            then_patched(patch_jump(else_jump.s, then_jump), else_jump.index)
        then_branch(s5, then_jump) ==
            IF ~IsOk(s5) THEN s5
            ELSE else_jumped(write_jump(s5, IA("Jump", 0), s5.previous.line), then_jump)
        then_jumped(then_jump, line) ==
            then_branch(self("statement", <<emit(then_jump.s, I("Pop"), line)>>),
                        then_jump.index)
        closed(s3) ==
            IF ~IsOk(s3) THEN s3
            ELSE then_jumped(write_jump(s3, IA("JumpIfFalse", 0), s3.previous.line),
                             s3.previous.line)
        condition(s2) ==
            IF ~IsOk(s2) THEN s2
            ELSE closed(consume(s2, ")", "Expect ')' after condition."))
        opened(s1) ==
            IF ~IsOk(s1) THEN s1 ELSE condition(self("expression", <<s1>>))
    IN opened(consume(s, "(", "Expect '(' after 'if'."))

\* Compiler::block
block(s) ==
    IF s.current.token_type.tag # "}" /\ s.current.token_type.tag # "Eof"
    THEN LET declared(s1) ==
                 IF ~IsOk(s1) THEN s1 ELSE self("block", <<s1>>)
         IN declared(self("declaration", <<s>>))
    ELSE consume(s, "}", "Expect '}' after block.")

\* Compiler::statement
statement(s) ==
    LET tag == s.current.token_type.tag
        scoped(s1) == IF ~IsOk(s1) THEN s1 ELSE end_scope(s1)
        matched(s1) ==
            IF ~IsOk(s1) THEN s1
            ELSE CASE tag = "print" -> self("print_statement", <<s1>>)
                   [] tag = "if" -> self("if_statement", <<s1>>)
                   [] tag = "for" -> self("for_statement", <<s1>>)
                   [] tag = "return" -> self("return_statement", <<s1>>)
                   [] tag = "while" -> self("while_statement", <<s1>>)
                   [] tag = "{" -> scoped(self("block", <<begin_scope(s1)>>))
    IN IF tag \in {"print", "if", "for", "return", "while", "{"}
       THEN matched(advance(s))
       ELSE self("expression_statement", <<s>>)

\* Compiler::variable_declaration
variable_declaration(s) ==
    LET initialized(s2, info) ==
            IF ~IsOk(s2) THEN s2
            ELSE consume(define_variable(s2, info), ";",
                         "Expect ';' after variable declaration.")
        initializer(eq, info) ==
            initialized(IF ~IsOk(eq.s) THEN eq.s
                        ELSE IF eq.matched THEN self("expression", <<eq.s>>)
                        ELSE [eq.s EXCEPT !.function.chunk =
                                    WriteConstant(@, Nil, eq.s.previous.line)],
                        info)
        declared(s1, info) ==
            IF ~IsOk(s1) THEN s1 ELSE initializer(match_token(s1, "="), info)
        parsed(v) ==
            IF ~IsOk(v.s) THEN v.s ELSE declared(declare_variable(v.s, v.info), v.info)
    IN parsed(parse_variable(s))

\* the parameter loop of Compiler::function, run by the function's compiler
parameter_loop(s) ==
    LET defined(comma) ==
            IF IsOk(comma.s) /\ comma.matched THEN self("parameter_loop", <<comma.s>>)
            ELSE comma.s
        declared(s2, info) ==
            IF ~IsOk(s2) THEN s2
            ELSE defined(match_token(define_variable(s2, info), ","))
        parsed(v) ==
            IF ~IsOk(v.s) THEN v.s ELSE declared(declare_variable(v.s, v.info), v.info)
        counted(s1) ==
            IF s1.function.arity > U8Max
            THEN Fail(s1, "Can't have more than 255 parameters.")
            ELSE parsed(parse_variable(s1))
    IN counted([s EXCEPT !.function.arity = @ + 1])

\* the compiler of s again in charge, with the parser and the error of sub
Resume(s, sub) ==
    [sub EXCEPT !.function = s.function, !.function_type = s.function_type,
                !.locals = s.locals, !.scope_depth = s.scope_depth]

\* Compiler::function
function(s) ==
    IF s.previous.token_type.tag # "Identifier"
    THEN Fail(s, "Unable to find function name defined")
    ELSE
    LET written(s1, fn) ==
            [s1 EXCEPT !.function.chunk =
                WriteConstant(@, FunctionValue(fn), s1.previous.line)]
        compiled(done) == written(Resume(s, done.s), done.function)
        body(c5) ==
            IF ~IsOk(c5) THEN Resume(s, c5) ELSE compiled(end_compile(c5))
        braced(c4) ==
            IF ~IsOk(c4) THEN Resume(s, c4) ELSE body(self("block", <<c4>>))
        closed(c3) ==
            IF ~IsOk(c3) THEN Resume(s, c3)
            ELSE braced(consume(c3, "{", "Expect '{' before function body."))
        parameters(c2) ==
            IF ~IsOk(c2) THEN Resume(s, c2)
            ELSE closed(consume(c2, ")", "Expect ')' after parameters."))
        opened(c1) ==
            IF ~IsOk(c1) THEN Resume(s, c1)
            ELSE parameters(IF c1.current.token_type.tag # ")"
                            THEN self("parameter_loop", <<c1>>) ELSE c1)
    IN opened(consume(begin_scope(new_for_function(s, s.previous.token_type.text)),
                      "(", "Expect '(' after function name."))

\* Compiler::fun_declaration
fun_declaration(s) ==
    LET compiled(s1, info) ==
            IF ~IsOk(s1) THEN s1 ELSE define_variable(s1, info)
        parsed(v) ==
            IF ~IsOk(v.s) THEN v.s
            ELSE compiled(self("function", <<mark_initialized(v.s)>>), v.info)
    IN parsed(parse_variable(s))

\* Compiler::declaration
declaration(s) ==
    LET tag == s.current.token_type.tag
        matched(s1) ==
            IF ~IsOk(s1) THEN s1
            ELSE CASE tag = "fun" -> self("fun_declaration", <<s1>>)
                   [] tag = "var" -> self("variable_declaration", <<s1>>)
    IN IF tag \in {"fun", "var"} THEN matched(advance(s))
       ELSE self("statement", <<s>>)

\* self.method(args): a method of impl Compiler called by name
self(method, args) ==
    CASE method = "expression" -> expression(args[1])
      [] method = "named_variable" -> named_variable(args[1], args[2])
      [] method = "grouping" -> grouping(args[1])
      [] method = "argument_loop" -> argument_loop(args[1], args[2])
      [] method = "argument_list" -> argument_list(args[1])
      [] method = "call" -> call(args[1])
      [] method = "unary" -> unary(args[1])
      [] method = "binary" -> binary(args[1])
      [] method = "and" -> and(args[1])
      [] method = "or" -> or(args[1])
      [] method = "prefix_rule" -> prefix_rule(args[1], args[2], args[3])
      [] method = "infix_rule" -> infix_rule(args[1], args[2], args[3])
      [] method = "infix_loop" -> infix_loop(args[1], args[2], args[3])
      [] method = "parse_precedence" -> parse_precedence(args[1], args[2])
      [] method = "print_statement" -> print_statement(args[1])
      [] method = "expression_statement" -> expression_statement(args[1])
      [] method = "return_statement" -> return_statement(args[1])
      [] method = "while_statement" -> while_statement(args[1])
      [] method = "for_body" -> for_body(args[1], args[2], args[3])
      [] method = "for_increment" -> for_increment(args[1], args[2], args[3])
      [] method = "for_condition" -> for_condition(args[1])
      [] method = "for_statement" -> for_statement(args[1])
      [] method = "if_statement" -> if_statement(args[1])
      [] method = "block" -> block(args[1])
      [] method = "statement" -> statement(args[1])
      [] method = "variable_declaration" -> variable_declaration(args[1])
      [] method = "parameter_loop" -> parameter_loop(args[1])
      [] method = "function" -> function(args[1])
      [] method = "fun_declaration" -> fun_declaration(args[1])
      [] method = "declaration" -> declaration(args[1])

-----------------------------------------------------------------------------
(* Inputs: the sources compiled and the bytecode functions interpreted *)

BaseSources ==
    {
     \* print 1 + 2;
     <<"print", "1", "+", "2", ";">>,
     \* print !(5 - 4 > 3 * 2 == !nil);
     <<"print", "!", "(", "5", "-", "4", ">", "3", "*", "2", "==", "!", "nil", ")",
       ";">>,
     \* print (0 - 1 + 2) * 3 - -4;
     <<"print", "(", "0", "-", "1", "+", "2", ")", "*", "3", "-", "-", "4", ";">>,
     \* print 8 / 4;
     <<"print", "8", "/", "4", ";">>,
     \* print -0; print 7 / 2; print 6 / 0; print 0 * -3; print 0 / 0 == 0 / 0;
     <<"print", "-", "0", ";", "\n", "print", "7", "/", "2", ";", "\n", "print", "6",
       "/", "0", ";", "\n", "print", "0", "*", "-", "3", ";", "\n", "print", "0", "/",
       "0", "==", "0", "/", "0", ";">>,
     \* print 1 / 10 + 2 / 10 == 3 / 10; print 1 / 10 + 2 / 10; print 1 / 7;
     \* print 10 / 3;
     <<"print", "1", "/", "10", "+", "2", "/", "10", "==", "3", "/", "10", ";", "\n",
       "print", "1", "/", "10", "+", "2", "/", "10", ";", "\n", "print", "1", "/", "7",
       ";", "\n", "print", "10", "/", "3", ";">>,
     \* fun f() { print -true; } f();
     <<"fun", "f", "(", ")", "{", "\n", "print", "-", "true", ";", "\n", "}", "\n",
       "f", "(", ")", ";">>,
     \* print 1 != 2; print 2 >= 2; print 2 <= 1; print 2 < 1;
     <<"print", "1", "!=", "2", ";", "\n", "print", "2", ">=", "2", ";", "\n", "print",
       "2", "<=", "1", ";", "\n", "print", "2", "<", "1", ";">>,
     \* print "x" + "y";
     <<"print", "\"x\"", "+", "\"y\"", ";">>,
     \* print "x" == "x";
     <<"print", "\"x\"", "==", "\"x\"", ";">>,
     \* print 1 + "x";
     <<"print", "1", "+", "\"x\"", ";">>,
     \* print -true;
     <<"print", "-", "true", ";">>,
     \* print true and false; print nil or 1;
     <<"print", "true", "and", "false", ";", "\n", "print", "nil", "or", "1", ";">>,
     \* print false or false; print 1 and 2;
     <<"print", "false", "or", "false", ";", "\n", "print", "1", "and", "2", ";">>,
     \* var x = 1; x = 2; print x;
     <<"var", "x", "=", "1", ";", "\n", "x", "=", "2", ";", "\n", "print", "x", ";">>,
     \* var x; print x;
     <<"var", "x", ";", "\n", "print", "x", ";">>,
     \* print x;
     <<"print", "x", ";">>,
     \* x = 1;
     <<"x", "=", "1", ";">>,
     \* { var a = "outer"; { var a = "inner"; print a; } }
     <<"{", "\n", "var", "a", "=", "\"outer\"", ";", "\n", "{", "\n", "var", "a", "=",
       "\"inner\"", ";", "\n", "print", "a", ";", "\n", "}", "\n", "}">>,
     \* { var a = 1; { var a = 2; print a; } print a; }
     <<"{", "\n", "var", "a", "=", "1", ";", "\n", "{", "\n", "var", "a", "=", "2",
       ";", "\n", "print", "a", ";", "\n", "}", "\n", "print", "a", ";", "\n", "}">>,
     \* { var a = 1; a = 2; print a; }
     <<"{", "\n", "var", "a", "=", "1", ";", "\n", "a", "=", "2", ";", "\n", "print",
       "a", ";", "\n", "}">>,
     \* var x = true; if (x) { print 1; } else { print 2; }
     <<"var", "x", "=", "true", ";", "\n", "if", "(", "x", ")", "{", "\n", "print",
       "1", ";", "\n", "}", "else", "{", "\n", "print", "2", ";", "\n", "}">>,
     \* var x = false; if (x) print 1; else print 2;
     <<"var", "x", "=", "false", ";", "\n", "if", "(", "x", ")", "print", "1", ";",
       "else", "print", "2", ";">>,
     \* if (nil) print 1;
     <<"if", "(", "nil", ")", "print", "1", ";">>,
     \* var c = 0; while (c < 2) { c = c + 1; } print c;
     <<"var", "c", "=", "0", ";", "\n", "while", "(", "c", "<", "2", ")", "{", "\n",
       "c", "=", "c", "+", "1", ";", "\n", "}", "\n", "print", "c", ";">>,
     \* var v = 0; for (var i = 0; i < 2; i = i + 1) { v = v + 1; } print v;
     <<"var", "v", "=", "0", ";", "\n", "for", "(", "var", "i", "=", "0", ";", "i",
       "<", "2", ";", "i", "=", "i", "+", "1", ")", "{", "\n", "v", "=", "v", "+", "1",
       ";", "\n", "}", "\n", "print", "v", ";">>,
     \* var c = 0; for (; c < 1;) c = c + 1; print c;
     <<"var", "c", "=", "0", ";", "\n", "for", "(", ";", "c", "<", "1", ";", ")", "c",
       "=", "c", "+", "1", ";", "\n", "print", "c", ";">>,
     \* var c = 0; for (; c < 2; c = c + 1) print c;
     <<"var", "c", "=", "0", ";", "\n", "for", "(", ";", "c", "<", "2", ";", "c", "=",
       "c", "+", "1", ")", "print", "c", ";">>,
     \* for (;;) {}
     <<"for", "(", ";", ";", ")", "{", "}">>,
     \* fun f() {} print f;
     <<"fun", "f", "(", ")", "{", "}", "\n", "print", "f", ";">>,
     \* fun noReturn() {} print noReturn();
     <<"fun", "noReturn", "(", ")", "{", "}", "\n", "print", "noReturn", "(", ")", ";">>,
     \* fun f() { return 4; } print f();
     <<"fun", "f", "(", ")", "{", "return", "4", ";", "}", "\n", "print", "f", "(",
       ")", ";">>,
     \* fun f() { return 4; } print f() + f();
     <<"fun", "f", "(", ")", "{", "return", "4", ";", "}", "\n", "print", "f", "(",
       ")", "+", "f", "(", ")", ";">>,
     \* fun f() { return; } f();
     <<"fun", "f", "(", ")", "{", "return", ";", "}", "\n", "f", "(", ")", ";">>,
     \* fun f(a) {} f();
     <<"fun", "f", "(", "a", ")", "{", "}", "\n", "f", "(", ")", ";">>,
     \* var notAFunction = 1; notAFunction();
     <<"var", "notAFunction", "=", "1", ";", "\n", "notAFunction", "(", ")", ";">>,
     \* fun f(a) { print a; } f(1);
     <<"fun", "f", "(", "a", ")", "{", "print", "a", ";", "}", "\n", "f", "(", "1",
       ")", ";">>,
     \* fun f(a, b) { print a; print b; } f(1, 2);
     <<"fun", "f", "(", "a", ",", "b", ")", "{", "print", "a", ";", "print", "b", ";",
       "}", "\n", "f", "(", "1", ",", "2", ")", ";">>,
     \* fun first() { var a = 1; var b = 2; second(b); } fun second(b) { var c = 3; var d = 4; print b; } first();
     <<"fun", "first", "(", ")", "{", "\n", "var", "a", "=", "1", ";", "\n", "var",
       "b", "=", "2", ";", "\n", "second", "(", "b", ")", ";", "\n", "}", "\n", "fun",
       "second", "(", "b", ")", "{", "\n", "var", "c", "=", "3", ";", "\n", "var", "d",
       "=", "4", ";", "\n", "print", "b", ";", "\n", "}", "\n", "first", "(", ")", ";">>,
     \* fun second(b) { var c = 3; var d = 4; print b; }
     <<"fun", "second", "(", "b", ")", "{", "\n", "var", "c", "=", "3", ";", "\n",
       "var", "d", "=", "4", ";", "\n", "print", "b", ";", "\n", "}">>,
     \* { var a = "outer"; { var a = a; } }
     <<"{", "\n", "var", "a", "=", "\"outer\"", ";", "\n", "{", "\n", "var", "a", "=",
       "a", ";", "\n", "}", "\n", "}">>,
     \* { var a = 1; var a = 2; }
     <<"{", "\n", "var", "a", "=", "1", ";", "\n", "var", "a", "=", "2", ";", "\n",
       "}">>,
     \* a * b = c + d;
     <<"a", "*", "b", "=", "c", "+", "d", ";">>,
     \* return 0;
     <<"return", "0", ";">>,
     \* fun f(a, b) { var c = a; print c; b = c; }
     <<"fun", "f", "(", "a", ",", "b", ")", "{", "var", "c", "=", "a", ";", "print",
       "c", ";", "b", "=", "c", ";", "}">>,
     \* { var a = 1; print ; } var b = 2;
     <<"{", "var", "a", "=", "1", ";", "print", ";", "}", "var", "b", "=", "2", ";">>,
     \* fun f(a, a) {}
     <<"fun", "f", "(", "a", ",", "a", ")", "{", "}">>,
     \* fun f(a) { var a = 1; }
     <<"fun", "f", "(", "a", ")", "{", "var", "a", "=", "1", ";", "}">>,
     \* { fun f() {} f(); }
     <<"{", "fun", "f", "(", ")", "{", "}", "f", "(", ")", ";", "}">>,
     \* { var a = 1; fun f() {} print a; }
     <<"{", "var", "a", "=", "1", ";", "fun", "f", "(", ")", "{", "}", "print", "a",
       ";", "}">>,
     \* { var a = 1; var a = 2; } var b = 1; print b;
     <<"{", "\n", "var", "a", "=", "1", ";", "\n", "var", "a", "=", "2", ";", "\n",
       "}", "\n", "var", "b", "=", "1", ";", "\n", "print", "b", ";">>,
     \* print ; print 1;
     <<"print", ";", "\n", "print", "1", ";">>,
     \* print (1; var x = 1 +; print 2
     <<"print", "(", "1", ";", "\n", "var", "x", "=", "1", "+", ";", "\n", "print",
       "2">>,
     \* { var a = 1;
     <<"{", "var", "a", "=", "1", ";">>,
     \* }
     <<"}">>,
     \* var 1 = 2;
     <<"var", "1", "=", "2", ";">>,
     \* fun f( { }
     <<"fun", "f", "(", "{", "}">>,
     \* 1 = 2;
     <<"1", "=", "2", ";">>,
     \* var a = 1; var a = 2; print a;
     <<"var", "a", "=", "1", ";", "\n", "var", "a", "=", "2", ";", "\n", "print", "a",
       ";">>,
     \* fun f() { { var a = a; } }
     <<"fun", "f", "(", ")", "{", "{", "var", "a", "=", "a", ";", "}", "}">>,
     \* for (var i = i;;) {}
     <<"for", "(", "var", "i", "=", "i", ";", ";", ")", "{", "}">>,
     \* while (false) print 1;
     <<"while", "(", "false", ")", "print", "1", ";">>,
     \* if (0) print 1; if ("") print 2;
     <<"if", "(", "0", ")", "print", "1", ";", "\n", "if", "(", "\"\"", ")", "print",
       "2", ";">>,
     \* { var a = a; }
     <<"{", "var", "a", "=", "a", ";", "}">>,
     \* { var a = 1; { var a = -a; } }
     <<"{", "var", "a", "=", "1", ";", "{", "var", "a", "=", "-", "a", ";", "}", "}">>,
     \* fun f(a) { { var a = (a); } }
     <<"fun", "f", "(", "a", ")", "{", "{", "var", "a", "=", "(", "a", ")", ";", "}",
       "}">>,
     \* { var a = 1; { var b = a; print b; } }
     <<"{", "var", "a", "=", "1", ";", "{", "var", "b", "=", "a", ";", "print", "b",
       ";", "}", "}">>,
     \* fun f(a) { { var a = 1; print a; } } f(2);
     <<"fun", "f", "(", "a", ")", "{", "{", "var", "a", "=", "1", ";", "print", "a",
       ";", "}", "}", "\n", "f", "(", "2", ")", ";">>,
     \* { var a = 1; { var b = 2; var a = 3; var b = 4; } }
     <<"{", "var", "a", "=", "1", ";", "{", "var", "b", "=", "2", ";", "var", "a", "=",
       "3", ";", "var", "b", "=", "4", ";", "}", "}">>,
     \* { var a = 1; for (var a = 0; a < 1; a = a + 1) { var a = 5; print a; } }
     <<"{", "var", "a", "=", "1", ";", "\n", "for", "(", "var", "a", "=", "0", ";",
       "a", "<", "1", ";", "a", "=", "a", "+", "1", ")", "{", "var", "a", "=", "5", ";",
       "print", "a", ";", "}", "\n", "}">>,
     \* { var a = 1; var b = 2; print a + b; }
     <<"{", "var", "a", "=", "1", ";", "var", "b", "=", "2", ";", "print", "a", "+",
       "b", ";", "}">>,
     \* { { var a = 1; } { var a = 2; } }
     <<"{", "{", "var", "a", "=", "1", ";", "}", "{", "var", "a", "=", "2", ";", "}",
       "}">>,
     \* { var a = 1; var b = 2; a * b = 3; }
     <<"{", "var", "a", "=", "1", ";", "var", "b", "=", "2", ";", "a", "*", "b", "=",
       "3", ";", "}">>,
     \* print 1 + 2 = 3;
     <<"print", "1", "+", "2", "=", "3", ";">>,
     \* var a; var b; a = b = 1; print a;
     <<"var", "a", ";", "var", "b", ";", "a", "=", "b", "=", "1", ";", "print", "a",
       ";">>,
     \* var a = 1; if (a == 1 = 2) print a;
     <<"var", "a", "=", "1", ";", "if", "(", "a", "==", "1", "=", "2", ")", "print",
       "a", ";">>,
     \* fun f(a) { if (a) { { return a; } } return; } f(1);
     <<"fun", "f", "(", "a", ")", "{", "if", "(", "a", ")", "{", "{", "return", "a",
       ";", "}", "}", "return", ";", "}", "\n", "f", "(", "1", ")", ";">>,
     \* { return 1; }
     <<"{", "return", "1", ";", "}">>,
     \* fun f() {} return;
     <<"fun", "f", "(", ")", "{", "}", "\n", "return", ";">>,
     \* fun f() { fun g() { return 1 + 2; } return g; }
     <<"fun", "f", "(", ")", "{", "fun", "g", "(", ")", "{", "return", "1", "+", "2",
       ";", "}", "return", "g", ";", "}">>,
     \* var 1 = 2; print 3 3; print 4;
     <<"var", "1", "=", "2", ";", "print", "3", "3", ";", "print", "4", ";">>,
     \* print 1 var a; print a
     <<"print", "1", "var", "a", ";", "print", "a">>,
     \* print @; print 2;
     <<"print", "@", ";", "print", "2", ";">>,
     \* print 1 1 @
     <<"print", "1", "1", "@">>,
     \* @
     <<"@">>,
     \* print 1; print 2; print -true; print 3;
     <<"print", "1", ";", "print", "2", ";", "print", "-", "true", ";", "print", "3",
       ";">>,
     \* print 1 - nil;
     <<"print", "1", "-", "nil", ";">>,
     \* print "x" * 2;
     <<"print", "\"x\"", "*", "2", ";">>,
     \* print true / 1;
     <<"print", "true", "/", "1", ";">>,
     \* print 1 > "x";
     <<"print", "1", ">", "\"x\"", ";">>,
     \* print nil < 1;
     <<"print", "nil", "<", "1", ";">>,
     \* print "x" + 1;
     <<"print", "\"x\"", "+", "1", ";">>,
     \* print true + true;
     <<"print", "true", "+", "true", ";">>,
     \* print -"x";
     <<"print", "-", "\"x\"", ";">>
    }

\* print a and b; and print a or b; for literal operands, as the end_to_end
\* cases do for true and false
LogicalSources ==
    {<<"print", a, op, b, ";">> :
        a \in {"false", "nil", "0"}, op \in {"and", "or"}, b \in {"2", "false"}}

Sources == BaseSources \cup LogicalSources

\* One step of building a chunk by hand, as the unit tests of the VM do
WC(value, line) == [k |-> "write_constant", value |-> value, i |-> I("Pop"), line |-> line]
WR(instruction, line) == [k |-> "write", value |-> Nil, i |-> instruction, line |-> line]

\* chunk.write_constant(...) and chunk.write(...) called in order
RECURSIVE BuildChunk(_, _, _)
BuildChunk(ops, k, chunk) ==
    IF k > Len(ops) THEN chunk
    ELSE BuildChunk(ops, k + 1,
            IF ops[k].k = "write_constant"
            THEN WriteConstant(chunk, ops[k].value, ops[k].line)
            ELSE ChunkWrite(chunk, ops[k].i, ops[k].line))

Script(ops) == FunctionNewScript(BuildChunk(ops, 1, ChunkNew))
Named(name, arity, ops) ==
    [arity |-> arity, chunk |-> BuildChunk(ops, 1, ChunkNew), name |-> <<name>>]

\* the callee of tests::calls: GetLocal 0; Print
PrintLocal0 == Named("f", 1, <<WR(IA("GetLocal", 0), 1), WR(I("Print"), 1)>>)

\* a callee that overwrites its slot 0 and reads it back
SetLocal0 ==
    Named("g", 1, <<WC(Double(9), 1), WR(IA("SetLocal", 0), 1), WR(I("Pop"), 1),
                    WR(IA("GetLocal", 0), 1), WR(I("Print"), 1)>>)

BytecodePrograms ==
    {
     \* tests::calls
     Script(<<WC(FunctionValue(PrintLocal0), 1), WC(Double(4), 1),
              WR(IA("GetLocal", 0), 1), WR(IA("GetLocal", 1), 1), WR(IA("Call", 1), 1)>>),
     \* tests::calls_wrong_arguments
     Script(<<WC(FunctionValue(PrintLocal0), 1), WR(IA("GetLocal", 0), 1),
              WR(IA("Call", 0), 1)>>),
     \* a call two values deep in the caller's stack
     Script(<<WC(Double(1), 1), WC(Double(2), 1), WC(FunctionValue(SetLocal0), 1),
              WC(Double(3), 1), WR(IA("Call", 1), 2), WR(I("Pop"), 2)>>),
     \* tests::if_jumps
     Script(<<WC(Bool(FALSE), 1), WR(IA("JumpIfFalse", 2), 2), WC(Nil, 3),
              WR(I("Print"), 3), WR(I("Pop"), 2)>>),
     \* tests::locals
     Script(<<WC(Double(4), 1), WC(Double(1), 1), WR(IA("SetLocal", 0), 1),
              WR(I("Pop"), 1), WR(IA("GetLocal", 0), 1)>>),
     \* operands missing or out of range
     Script(<<WR(I("Pop"), 1)>>),
     Script(<<WR(I("Add"), 1)>>),
     Script(<<WC(Double(1), 1), WR(I("Add"), 1)>>),
     Script(<<WC(Double(1), 1), WR(I("Less"), 1)>>),
     Script(<<WR(I("Negate"), 1)>>),
     Script(<<WR(I("Not"), 1)>>),
     Script(<<WC(Nil, 1), WR(I("Equal"), 1)>>),
     Script(<<WR(I("Print"), 1)>>),
     Script(<<WR(IA("JumpIfFalse", 1), 1)>>),
     Script(<<WR(IA("Call", 1), 1)>>),
     Script(<<WR(IA("GetLocal", 3), 1)>>),
     Script(<<WR(IA("SetLocal", 0), 1)>>),
     Script(<<WC(Nil, 1), WR(IA("SetLocal", 2), 1)>>),
     Script(<<WR(IA("JumpBack", 5), 1), WR(I("Return"), 1)>>),
     Script(<<WR(IA("Constant", 3), 1)>>),
     Script(<<WC(Nil, 1), WR(IA("LongConstant", 0), 1), WR(I("Equal"), 1)>>),
     Script(<<WC(Double(1), 1), WR(IA("DefineGlobal", 0), 1)>>),
     Script(<<WC(String("x"), 1), WR(I("Pop"), 1), WR(IA("DefineGlobal", 0), 1)>>),
     Script(<<WR(IA("DefineGlobal", 2), 1)>>),
     Script(<<WC(Double(1), 1), WR(IA("FetchGlobal", 0), 1)>>),
     Script(<<WR(IA("FetchGlobal", 0), 1)>>),
     Script(<<WC(Double(1), 1), WR(IA("SetGlobal", 0), 1)>>),
     Script(<<WR(IA("SetGlobal", 0), 1)>>),
     \* a global defined, then set with nothing to peek at
     Script(<<WC(String("x"), 1), WR(IA("DefineGlobal", 0), 1),
              WR(IA("SetGlobal", 0), 1)>>),
     \* tests::globals_set_is_defined
     Script(<<WC(String("x"), 1), WC(Double(4), 1), WC(Double(1), 1),
              WR(IA("DefineGlobal", 0), 1), WR(IA("SetGlobal", 0), 1)>>)
    }

NoOrigin == [kind |-> "none", words |-> <<>>, function |-> FunctionNew]
SourceOrigin(words) == [kind |-> "source", words |-> words, function |-> FunctionNew]
BytecodeOrigin(fn) == [kind |-> "bytecode", words |-> <<>>, function |-> fn]

-----------------------------------------------------------------------------
(* The state machine *)

\* what compile returned: Ok(function), Err(errors.into()) with the errors
\* collected, or the Err of the parser that a ? handed on
CompilePending == [kind |-> "Pending", function |-> FunctionNew, err |-> <<>>]
CompileOk(fn) == [kind |-> "Ok", function |-> fn, err |-> <<>>]
CompileErr == [kind |-> "Err", function |-> FunctionNew, err |-> <<>>]
CompileErrOf(message) == [kind |-> "Err", function |-> FunctionNew, err |-> <<message>>]

\* the compilation state the operators of the compiler work on
State == [toks |-> parser.toks, next |-> parser.next, previous |-> parser.previous,
          current |-> parser.current, function |-> compiler.function,
          function_type |-> compiler.function_type, locals |-> compiler.locals,
          scope_depth |-> compiler.scope_depth, err |-> <<>>]
CompilerOf(s) == [function |-> s.function, function_type |-> s.function_type,
                  locals |-> s.locals, scope_depth |-> s.scope_depth]
ParserOf(s) == [toks |-> s.toks, next |-> s.next, previous |-> s.previous,
                current |-> s.current]

\* a call made on the chunk: its name, its argument, and Ok, Err or Panic
Called(method, arg, returned) ==
    [call |-> method, arg |-> arg, returned |-> returned]
NoCall == Called("", 0, "")

\* Compiler::new(), VM::new_from_settings(settings) and Chunk::new()
Init ==
    /\ settings \in {[capture_prints |-> TRUE], [capture_prints |-> FALSE]}
    /\ globals = <<>>
    /\ stack = <<>>
    /\ captured_prints = <<>>
    /\ frames = <<>>
    /\ stdout = <<>>
    /\ vm_pc = "new"
    /\ result = ResultPending
    /\ steps = 0
    /\ origin = NoOrigin
    /\ compiler = CompilerOf(CompilerNew(<<[token_type |-> TokenType("Eof", ""), line |-> 1]>>))
    /\ parser = <<>>
    /\ errors = <<>>
    /\ c_pc = "new"
    /\ compile_result = CompilePending
    /\ unit_chunk = ChunkNew
    /\ unit_pushed = <<>>
    /\ unit_returned = NoCall
    /\ unit_made = <<>>
    /\ source = [characters |-> <<>>, buffered |-> <<>>]
    /\ source_input = <<>>
    /\ source_calls = <<>>

\* Compiler::compile, up to its loop: Parser::new(source)
CompileStart(words) ==
    /\ c_pc = "new"
    /\ vm_pc = "new"
    /\ LET primed(toks) ==
               IF toks[1].token_type.tag = "Error"
               THEN /\ compile_result' = CompileErrOf(toks[1].token_type.text)
                    /\ c_pc' = "done"
                    /\ UNCHANGED parser
               ELSE /\ parser' = ParserOf(CompilerNew(toks))
                    /\ c_pc' = "compiling"
                    /\ UNCHANGED compile_result
       IN primed(ScanAll(words, 1, 1))
    /\ origin' = SourceOrigin(words)
    /\ UNCHANGED <<compiler, errors, vm_vars, unit_vars>>

\* one pass of the loop of Compiler::compile in which try_compile is Ok
TryCompileOk ==
    /\ c_pc = "compiling"
    /\ parser.current.token_type.tag # "Eof"
    /\ \E s \in {declaration(State)} :
           /\ IsOk(s)
           /\ compiler' = CompilerOf(s)
           /\ parser' = ParserOf(s)
    /\ UNCHANGED <<errors, c_pc, compile_result, origin, vm_vars, unit_vars>>

\* one pass of the loop of Compiler::compile in which try_compile is Err:
\* println!("Processing error"); errors.push(err); self.synchronize(&mut parser)
TryCompileErr ==
    /\ c_pc = "compiling"
    /\ parser.current.token_type.tag # "Eof"
    /\ \E s \in {declaration(State)} :
           /\ ~IsOk(s)
           /\ errors' = Append(errors, s.err[1])
           /\ \E s1 \in {synchronize([s EXCEPT !.err = <<>>])} :
                  /\ compiler' = CompilerOf(s1)
                  /\ parser' = ParserOf(s1)
                  /\ IF IsOk(s1) THEN UNCHANGED <<c_pc, compile_result>>
                     ELSE /\ c_pc' = "done"
                          /\ compile_result' = CompileErrOf(s1.err[1])
    /\ stdout' = Append(stdout, "Processing error")
    /\ UNCHANGED <<settings, globals, stack, captured_prints, frames, vm_pc, result,
                   steps, origin, unit_vars>>

\* the loop of Compiler::compile ends: match_token(Eof), then Err(errors) or
\* end_compile
CompileEnd ==
    /\ c_pc = "compiling"
    /\ parser.current.token_type.tag = "Eof"
    /\ \E s \in {advance(State)} :
           IF errors # <<>>
           THEN /\ compile_result' = CompileErr
                /\ compiler' = CompilerOf(s)
                /\ parser' = ParserOf(s)
           ELSE \E done \in {end_compile(s)} :
                    /\ compile_result' = CompileOk(done.function)
                    /\ compiler' = CompilerOf(done.s)
                    /\ parser' = ParserOf(done.s)
    /\ c_pc' = "done"
    /\ UNCHANGED <<errors, origin, vm_vars, unit_vars>>

\* VM::interpret(function), up to the dispatch loop, on the compiled function
Interpret ==
    /\ vm_pc = "new"
    /\ c_pc = "done"
    /\ compile_result.kind = "Ok"
    /\ frames' = Append(frames, FrameNew(compile_result.function))
    /\ vm_pc' = "running"
    /\ UNCHANGED <<settings, globals, stack, captured_prints, stdout, result, steps,
                   origin, compile_vars, unit_vars>>

\* VM::interpret(function) on a function built by hand
InterpretBytecode(fn) ==
    /\ vm_pc = "new"
    /\ c_pc = "new"
    /\ frames' = Append(frames, FrameNew(fn))
    /\ vm_pc' = "running"
    /\ origin' = BytecodeOrigin(fn)
    /\ UNCHANGED <<settings, globals, stack, captured_prints, stdout, result, steps,
                   compile_vars, unit_vars>>

Next ==
    \/ \E words \in Sources : CompileStart(words)
    \/ TryCompileOk
    \/ TryCompileErr
    \/ CompileEnd
    \/ Interpret
    \/ \E fn \in BytecodePrograms : InterpretBytecode(fn)
    \/ ExecEnd
    \/ ExecReturn
    \/ ExecConstant
    \/ ExecLongConstant
    \/ ExecNegate
    \/ ExecAdd
    \/ ExecSubtract
    \/ ExecMultiply
    \/ ExecDivide
    \/ ExecNot
    \/ ExecEqual
    \/ ExecGreater
    \/ ExecLess
    \/ ExecPrint
    \/ ExecPop
    \/ ExecDefineGlobal
    \/ ExecFetchGlobal
    \/ ExecSetGlobal
    \/ ExecSetLocal
    \/ ExecGetLocal
    \/ ExecJumpIfFalse
    \/ ExecJump
    \/ ExecJumpBack
    \/ ExecCall

Spec == Init /\ [][Next]_vars

\* compile is one sequential loop: once called, it goes on with its next
\* pass. This is the weak fairness of the passes, WF_vars(pass), with
\* ENABLED <<pass>>_vars written as the state predicate it equals: while
\* c_pc = "compiling" one of the three passes can be taken (CompileEnd at Eof,
\* otherwise TryCompileOk or TryCompileErr as declaration returns Ok or Err)
\* and the pass changes the state.
FairSpec ==
    /\ Spec
    /\ \/ []<>(c_pc # "compiling")
       \/ []<><<TryCompileOk \/ TryCompileErr \/ CompileEnd>>_vars

-----------------------------------------------------------------------------
(* A chunk written to directly, as the tests of src/src/bytecode/chunk.rs do *)

\* The chunk is written up to this many instructions.
MaxCode == 3

\* The instructions and the lines that are written
UnitInstructions == {I("Pop"), IA("JumpIfFalse", 0), IA("Jump", 0)}
UnitLines == {1, 2}

\* chunk.write(instruction, line)
UnitWrite(instruction, line) ==
    /\ Len(unit_chunk.code) < MaxCode
    /\ unit_chunk' = ChunkWrite(unit_chunk, instruction, line)
    /\ unit_pushed' = Append(unit_pushed, line)
    /\ unit_returned' = Called("write", line, "Ok")
    /\ UNCHANGED <<unit_made, source_vars, vm_vars, compile_vars, origin>>

\* chunk.patch_jump(jump_offset); past the end of the code
\* self.code.len() - jump_offset - 1 overflows or self.code[jump_offset] is out
\* of bounds, a panic in every build
UnitPatchJump(jump_offset) ==
    /\ IF jump_offset >= Len(unit_chunk.code)
       THEN /\ unit_returned' = Called("patch_jump", jump_offset, "Panic")
            /\ UNCHANGED unit_chunk
       ELSE LET patched(r) ==
                    /\ unit_chunk' = r.chunk
                    /\ unit_returned' =
                           Called("patch_jump", jump_offset, IF r.ok THEN "Ok" ELSE r.err[1])
            IN patched(PatchJump(unit_chunk, jump_offset))
    /\ UNCHANGED <<unit_pushed, unit_made, source_vars, vm_vars, compile_vars, origin>>

ChunkNext ==
    \/ \E instruction \in UnitInstructions, line \in UnitLines :
           UnitWrite(instruction, line)
    \/ \E jump_offset \in 0..MaxCode : UnitPatchJump(jump_offset)

ChunkSpec == Init /\ [][ChunkNext]_vars

-----------------------------------------------------------------------------
(* The constant pool: make_constant called directly, and by the compiler *)

\* make_constant is called directly up to this many times.
MaxMade == 4

\* The values that are passed to it
UnitValues == {String("x"), String("y"), Double(1), Double(0), Zero(TRUE), NaN}

\* chunk.make_constant(value)
UnitMakeConstant(value) ==
    /\ Len(unit_made) < MaxMade
    /\ LET made(m) ==
               /\ unit_chunk' = m.chunk
               /\ unit_made' = Append(unit_made, [value |-> value, index |-> m.index])
               /\ unit_returned' = Called("make_constant", m.index, "Ok")
       IN made(MakeConstant(unit_chunk, value))
    /\ UNCHANGED <<unit_pushed, source_vars, vm_vars, compile_vars, origin>>

\* A run either calls make_constant on a chunk of its own or compiles a source
ConstantsNext ==
    \/ \E value \in UnitValues : c_pc = "new" /\ UnitMakeConstant(value)
    \/ \E words \in Sources : unit_made = <<>> /\ CompileStart(words)
    \/ TryCompileOk
    \/ TryCompileErr
    \/ CompileEnd

ConstantsSpec == Init /\ [][ConstantsNext]_vars

-----------------------------------------------------------------------------
(* The Source of the scanner: src/src/compiler/tokens/source.rs *)
(* An Option<char> is <<>> for None and <<c>> for Some(c).      *)

\* A Source is made of a string of up to this many characters,
MaxChars == 3
\* and is called up to this many times.
MaxCalls == 5

\* The strings: the prefixes of the "asdf" of the tests
SourceInputs == {SubSeq(<<"a", "s", "d", "f">>, 1, n) : n \in 1..MaxChars}

\* Peekable<Chars>: what peek returns, and the characters left after next
CharsPeek(characters) == IF characters = <<>> THEN <<>> ELSE <<Head(characters)>>
CharsRest(characters) == IF characters = <<>> THEN <<>> ELSE Tail(characters)

\* Source::new(input); the Source of Init is Source::new("")
SourceNew(input) ==
    /\ source_input = <<>>
    /\ source_calls = <<>>
    /\ source' = [characters |-> input, buffered |-> <<>>]
    /\ source_input' = input
    /\ UNCHANGED <<source_calls, unit_chunk, unit_pushed, unit_returned, unit_made,
                   vm_vars, compile_vars, origin>>

\* Source::next
SourceNext ==
    /\ Len(source_calls) < MaxCalls
    /\ IF source.buffered # <<>>
       THEN /\ source' = [source EXCEPT !.buffered = <<>>]
            /\ source_calls' = Append(source_calls,
                                      [call |-> "next", returned |-> source.buffered])
       ELSE /\ source' = [source EXCEPT !.characters = CharsRest(@)]
            /\ source_calls' = Append(source_calls,
                                      [call |-> "next",
                                       returned |-> CharsPeek(source.characters)])
    /\ UNCHANGED <<source_input, unit_chunk, unit_pushed, unit_returned, unit_made,
                   vm_vars, compile_vars, origin>>

\* Source::peek
SourcePeek ==
    /\ Len(source_calls) < MaxCalls
    /\ source_calls' = Append(source_calls,
                              [call |-> "peek",
                               returned |-> IF source.buffered # <<>>
                                            THEN source.buffered
                                            ELSE CharsPeek(source.characters)])
    /\ UNCHANGED <<source, source_input, unit_chunk, unit_pushed, unit_returned,
                   unit_made, vm_vars, compile_vars, origin>>

\* a peek_two that drops the character it steps over
SourcePeekTwoDropping ==
    /\ Len(source_calls) < MaxCalls
    /\ source' = [source EXCEPT !.characters = CharsRest(@)]
    /\ source_calls' = Append(source_calls,
                              [call |-> "peek_two",
                               returned |-> CharsPeek(CharsRest(source.characters))])
    /\ UNCHANGED <<source_input, unit_chunk, unit_pushed, unit_returned, unit_made,
                   vm_vars, compile_vars, origin>>

\* Source::peek_two
SourcePeekTwo ==
    /\ Len(source_calls) < MaxCalls
    /\ IF source.buffered # <<>>
       THEN /\ UNCHANGED source
            /\ source_calls' = Append(source_calls,
                                      [call |-> "peek_two",
                                       returned |-> CharsPeek(source.characters)])
       ELSE /\ source' = [characters |-> CharsRest(source.characters),
                          buffered |-> CharsPeek(source.characters)]
            /\ source_calls' = Append(source_calls,
                                      [call |-> "peek_two",
                                       returned |->
                                           CharsPeek(CharsRest(source.characters))])
    /\ UNCHANGED <<source_input, unit_chunk, unit_pushed, unit_returned, unit_made,
                   vm_vars, compile_vars, origin>>

SourceStep ==
    \/ \E input \in SourceInputs : SourceNew(input)
    \/ SourceNext
    \/ SourcePeek
    \/ SourcePeekTwo

SourceSpec == Init /\ [][SourceStep]_vars

-----------------------------------------------------------------------------
(* Properties of the virtual machine *)

\* The step from this state dispatches an instruction with this opcode
Executes(op) == Fetched(op) /\ steps' = steps + 1

\* The instruction the top frame dispatched last, when it fell through to the
\* next one (ip - 1 in the code's 0-based terms)
Ran(op) ==
    /\ Len(frames) > 0
    /\ CurrentFrame.ip \in 1..Len(CurrentFrame.function.chunk.code)
    /\ CurrentFrame.function.chunk.code[CurrentFrame.ip].op = op

\* interpret has returned Ok(())
ReturnedOk == vm_pc = "returned" /\ result = ResultOk

\* The name a FetchGlobal, SetGlobal or DefineGlobal about to run refers to
NamesGlobal == ConstantNameKind(Instruction.arg) = "Ok"
GlobalName == Constant(Instruction.arg).s

\* The callee slot of a Call about to run: stack[len - arg_count - 1]
HasCallee == Len(stack) >= Instruction.arg + 1
Callee == stack[Len(stack) - Instruction.arg]

\* C1: whenever a source that compile() accepted has been run by interpret and
\* the run ended without a runtime error, the operand stack is empty.
C1_BalancedStack ==
    (origin.kind = "source" /\ ReturnedOk) => stack = <<>>

\* C2: a Return executed in a called frame pops the return value and the
\* frame, cuts the stack back to the frame's stack base, pushes the return
\* value, and leaves the caller at the instruction after its Call.
C2_ReturnUnwinds ==
    [][(Executes("Return") /\ Len(frames) > 1 /\ Len(stack) > 0) =>
          /\ frames' = SubSeq(frames, 1, Len(frames) - 1)
          /\ stack' = Append(SubSeq(stack, 1, CurrentFrame.stack_offset),
                             stack[Len(stack)])]_vars

\* C3: a Call{n} whose callee slot holds a function of arity n pushes a frame
\* with ip = 0 and stack base len - n - 1, and leaves the operand stack alone.
C3_CallPushesFrame ==
    [][(/\ Executes("Call")
        /\ HasCallee
        /\ Callee.kind = "Function"
        /\ Callee.f.arity = Instruction.arg) =>
          /\ frames' = Append(Advanced,
                              [function |-> Callee.f, ip |-> 0,
                               stack_offset |-> Len(stack) - Instruction.arg - 1])
          /\ stack' = stack]_vars

\* C4: a Call{n} on a callee slot that holds no function ends the run with
\* InvalidRuntimeType; on a function of arity a # n it ends the run with
\* IncorrectArgumentCount(a, n).  Neither pushes a frame, and once the run has
\* ended no instruction executes.
C4_CallRejects ==
    [][/\ (Executes("Call") /\ HasCallee /\ Callee.kind # "Function") =>
              /\ vm_pc' = "returned"
              /\ result' = InvalidRuntimeType
              /\ Len(frames') = Len(frames)
       /\ (/\ Executes("Call")
           /\ HasCallee
           /\ Callee.kind = "Function"
           /\ Callee.f.arity # Instruction.arg) =>
              /\ vm_pc' = "returned"
              /\ result' = IncorrectArgumentCount(Callee.f.arity, Instruction.arg)
              /\ Len(frames') = Len(frames)
       /\ vm_pc = "returned" => UNCHANGED vm_vars]_vars

\* a Call{0} on a function of one parameter has ended the run
C4_Witness ==
    /\ vm_pc = "returned"
    /\ result = IncorrectArgumentCount(1, 0)
    /\ Ran("Call")
    /\ Len(frames) = 1

\* C5: FetchGlobal and SetGlobal on a name that is not in the globals end the
\* run with UndefinedVariable(name) and change neither the globals nor the
\* operand stack; a SetGlobal never adds a name to the globals.
C5_UndefinedGlobal ==
    [][/\ (/\ Executes("FetchGlobal") \/ Executes("SetGlobal")
           /\ NamesGlobal
           /\ GlobalName \notin DOMAIN globals) =>
              /\ vm_pc' = "returned"
              /\ result' = UndefinedVariable(GlobalName)
              /\ globals' = globals
              /\ stack' = stack
       /\ Executes("SetGlobal") => DOMAIN globals' = DOMAIN globals]_vars

\* a SetGlobal on an undefined name has ended the run, a value on the stack
C5_Witness ==
    /\ vm_pc = "returned"
    /\ result.err = "UndefinedVariable"
    /\ Ran("SetGlobal")
    /\ Len(stack) > 0
    /\ result.name \notin DOMAIN globals

\* C6: SetGlobal on a defined name binds the name to the value on top of the
\* operand stack and leaves the stack and every other global as they were;
\* DefineGlobal pops exactly one value and binds it to the name.
C6_SetAndDefineGlobal ==
    [][/\ (/\ Executes("SetGlobal")
           /\ NamesGlobal
           /\ GlobalName \in DOMAIN globals
           /\ Len(stack) > 0) =>
              /\ stack' = stack
              /\ globals' = [globals EXCEPT ![GlobalName] = stack[Len(stack)]]
       /\ (Executes("DefineGlobal") /\ NamesGlobal /\ Len(stack) > 0) =>
              /\ stack' = SubSeq(stack, 1, Len(stack) - 1)
              /\ DOMAIN globals' = DOMAIN globals \cup {GlobalName}
              /\ globals'[GlobalName] = stack[Len(stack)]
              /\ \A n \in DOMAIN globals \ {GlobalName} : globals'[n] = globals[n]]_vars

\* a SetGlobal has overwritten a global with the value still on top of the stack
C6_Witness ==
    /\ vm_pc = "running"
    /\ Ran("SetGlobal")
    /\ Len(stack) = 2
    /\ "x" \in DOMAIN globals
    /\ globals["x"] = stack[Len(stack)]
    /\ globals["x"] = Double(4)

\* C7: GetLocal{i} pushes a copy of stack[base + i] and SetLocal{i} writes the
\* top of the stack into stack[base + i] without popping it, base being the
\* stack base of the top frame; no slot below base changes.
C7_LocalsRelativeToBase ==
    [][/\ (/\ Executes("GetLocal")
           /\ CurrentFrame.stack_offset + Instruction.arg < Len(stack)) =>
              stack' = Append(stack, stack[CurrentFrame.stack_offset + Instruction.arg + 1])
       /\ (/\ Executes("SetLocal")
           /\ CurrentFrame.stack_offset + Instruction.arg < Len(stack)) =>
              /\ Len(stack') = Len(stack)
              /\ stack'[CurrentFrame.stack_offset + Instruction.arg + 1] = stack[Len(stack)]
              /\ \A k \in 1..Len(stack) :
                    k # CurrentFrame.stack_offset + Instruction.arg + 1 =>
                        stack'[k] = stack[k]
       /\ (Executes("GetLocal") \/ Executes("SetLocal")) =>
              \A k \in 1..CurrentFrame.stack_offset :
                    k <= Len(stack) => (k <= Len(stack') /\ stack'[k] = stack[k])]_vars

\* a SetLocal has run in a called frame whose base is above the stack's bottom
C7_Witness ==
    /\ vm_pc = "running"
    /\ Len(frames) = 2
    /\ CurrentFrame.stack_offset > 0
    /\ Ran("SetLocal")
    /\ stack[CurrentFrame.stack_offset + 1] = stack[Len(stack)]
    /\ stack[1] # stack[Len(stack)]

\* C8: JumpIfFalse{off} adds off to the frame's ip exactly when the top of the
\* stack is nil or false, and never changes the stack; Jump{off} always adds off.
C8_Jumps ==
    [][/\ (Executes("JumpIfFalse") /\ Len(stack) > 0) =>
              /\ stack' = stack
              /\ frames' =
                    [frames EXCEPT ![Len(frames)].ip =
                        IF \/ stack[Len(stack)].kind = "Nil"
                           \/ (stack[Len(stack)].kind = "Bool" /\ ~stack[Len(stack)].b)
                        THEN @ + 1 + Instruction.arg
                        ELSE @ + 1]
       /\ Executes("Jump") =>
              /\ stack' = stack
              /\ frames' = [frames EXCEPT ![Len(frames)].ip = @ + 1 + Instruction.arg]]_vars

\* a JumpIfFalse reached in straight line has jumped over a falsey condition
C8_Witness ==
    /\ vm_pc = "running"
    /\ Len(frames) = 1
    /\ Len(stack) > 0
    /\ is_falsey(stack[Len(stack)])
    /\ \E k \in 1..Len(CurrentFrame.function.chunk.code) :
          /\ CurrentFrame.function.chunk.code[k].op = "JumpIfFalse"
          /\ CurrentFrame.function.chunk.code[k].arg > 0
          /\ steps = k
          /\ CurrentFrame.ip = k + CurrentFrame.function.chunk.code[k].arg

-----------------------------------------------------------------------------
(* Properties of the compiler *)

\* A source without its line breaks
Lexemes(words) == SelectSeq(words, LAMBDA w : w # "\n")

\* The lexeme is an identifier
IsName(w) == ScanLexeme(w).tag = "Identifier"

\* The first operand of the expression that starts at lexeme k: prefix
\* operators and opening parentheses are stepped over
RECURSIVE FirstOperand(_, _)
FirstOperand(ws, k) ==
    IF k > Len(ws) THEN ""
    ELSE IF ws[k] \in {"-", "!", "("} THEN FirstOperand(ws, k + 1)
    ELSE ws[k]

\* The names declared in scope k and in the scopes around it, up to the scope
\* of the function's parameters
RECURSIVE Enclosing(_, _)
Enclosing(scopes, k) ==
    IF k = 0 THEN {}
    ELSE scopes[k].names
         \cup (IF scopes[k].is_fun THEN {} ELSE Enclosing(scopes, k - 1))

\* var name = <an expression whose first operand is name>
ReadsItself(ws, k) ==
    /\ k + 2 <= Len(ws)
    /\ ws[k + 2] = "="
    /\ FirstOperand(ws, k + 3) = ws[k + 1]

\* The declaration of a local called name in the innermost scope open
DeclareIn(st, name) ==
    [st EXCEPT
        !.redeclared = @ \/ name \in st.scopes[Len(st.scopes)].names,
        !.shadowed = @ \/ (/\ name \notin st.scopes[Len(st.scopes)].names
                           /\ ~st.scopes[Len(st.scopes)].is_fun
                           /\ name \in Enclosing(st.scopes, Len(st.scopes) - 1)),
        !.scopes[Len(st.scopes)].names = @ \cup {name}]

\* One of the scopes open is the scope of a function
InFunction(scopes) == \E k \in 1..Len(scopes) : scopes[k].is_fun

\* What lexeme k does to the scopes open in the text.  A function opens one
\* scope for its parameters and its body; the variable of a for clause has a
\* scope of its own.
DeclarationStep(ws, k, st) ==
    CASE ws[k] = "fun" ->
            [st EXCEPT !.scopes = Append(@, [names |-> {}, is_fun |-> TRUE]),
                       !.header = "name"]
      [] ws[k] = "(" /\ st.header = "name" -> [st EXCEPT !.header = "params"]
      [] ws[k] = "{" /\ st.header # "" -> [st EXCEPT !.header = ""]
      [] ws[k] = "{" /\ st.header = "" ->
            [st EXCEPT !.scopes = Append(@, [names |-> {}, is_fun |-> FALSE])]
      [] ws[k] = "}" /\ Len(st.scopes) > 0 ->
            [st EXCEPT !.scopes = SubSeq(@, 1, Len(@) - 1)]
      [] ws[k] = "return" ->
            [st EXCEPT !.top_return = @ \/ ~InFunction(st.scopes),
                       !.fun_return = @ \/ InFunction(st.scopes)]
      [] ws[k] = "var" /\ k + 1 <= Len(ws) /\ IsName(ws[k + 1]) ->
            IF k > 2 /\ ws[k - 1] = "(" /\ ws[k - 2] = "for"
            THEN [st EXCEPT !.self_read = @ \/ ReadsItself(ws, k)]
            ELSE IF Len(st.scopes) > 0
            THEN [DeclareIn(st, ws[k + 1]) EXCEPT !.self_read = @ \/ ReadsItself(ws, k)]
            ELSE st
      [] OTHER -> st

RECURSIVE DeclarationsFrom(_, _, _)
DeclarationsFrom(ws, k, st) ==
    IF k > Len(ws) THEN st
    ELSE IF st.header = "params" /\ IsName(ws[k])
    THEN DeclarationsFrom(ws, k + 1, DeclareIn(st, ws[k]))
    ELSE DeclarationsFrom(ws, k + 1, DeclarationStep(ws, k, st))

\* What the text of a source declares: whether a local is declared twice in
\* one scope, whether a local has the name of a local of an enclosing scope,
\* whether the initializer of a local reads the local, whether a return
\* stands outside every function body, whether one stands inside a body
Declarations(words) ==
    DeclarationsFrom(Lexemes(words), 1,
                     [scopes |-> <<>>, header |-> "", redeclared |-> FALSE,
                      shadowed |-> FALSE, self_read |-> FALSE,
                      top_return |-> FALSE, fun_return |-> FALSE])

\* Compiler::compile has returned Err(errors) with this message among them
CompileFailsWith(message) ==
    /\ compile_result = CompileErr
    /\ \E i \in 1..Len(errors) : errors[i] = message

\* C9: a source in which the initializer of a local variable reads that
\* variable does not compile: "Can't read local variable in its own
\* initializer." is reported, also when an enclosing scope has an initialized
\* local of that name.
C9_SelfReferenceGuard ==
    (/\ origin.kind = "source"
     /\ c_pc = "done"
     /\ Declarations(origin.words).self_read) =>
        CompileFailsWith("Can't read local variable in its own initializer.")

\* the guard has fired on a block nested in a scope that declares the name
C9_Witness ==
    /\ c_pc = "done"
    /\ Declarations(origin.words).self_read
    /\ Declarations(origin.words).shadowed
    /\ CompileFailsWith("Can't read local variable in its own initializer.")

\* C10: a source that declares a local twice in one scope does not compile:
\* "Already a variable with this name in this scope." is reported; a source
\* whose only repeated names are declared in nested inner scopes compiles.
C10_DoubleDeclarationGuard ==
    (origin.kind = "source" /\ c_pc = "done") =>
        /\ Declarations(origin.words).redeclared =>
               CompileFailsWith("Already a variable with this name in this scope.")
        /\ (/\ Declarations(origin.words).shadowed
            /\ ~Declarations(origin.words).redeclared
            /\ ~Declarations(origin.words).self_read) =>
               compile_result.kind = "Ok"

\* both halves have happened: a block that declares a name twice was refused
\* after a nested scope had declared a name of the enclosing one
C10_Witness ==
    /\ c_pc = "done"
    /\ Declarations(origin.words).redeclared
    /\ Declarations(origin.words).shadowed
    /\ CompileFailsWith("Already a variable with this name in this scope.")

\* The lexeme is an operand on its own: a name or a literal
IsOperand(w) ==
    ScanLexeme(w).tag \in {"Identifier", "Number", "String", "true", "false", "nil"}

\* The lexemes of the binary operators
BinaryOperators ==
    {"+", "-", "*", "/", "==", "!=", "<", "<=", ">", ">=", "and", "or"}

\* Where the expression  operand (operator operand)*  that starts at lexeme k
\* ends: the index of the lexeme after it, 0 if no such expression starts at k
RECURSIVE FlatExpressionEnd(_, _)
FlatExpressionEnd(ws, k) ==
    IF k > Len(ws) THEN 0
    ELSE IF ~IsOperand(ws[k]) THEN 0
    ELSE IF k + 1 <= Len(ws) /\ ws[k + 1] \in BinaryOperators
    THEN FlatExpressionEnd(ws, k + 2)
    ELSE k + 1

\* Lexeme s is where a statement or a parenthesised expression starts
ExpressionStart(ws, s) == s = 1 \/ ws[s - 1] \in {";", "{", "}", "(", "print"}

\* An expression that is not a bare identifier starts at s and ends before "="
AssignsToExpression(ws, s, e) ==
    /\ e > 0
    /\ e <= Len(ws)
    /\ ws[e] = "="
    /\ (e > s + 1 \/ ~IsName(ws[s]))

\* The text has an "=" after an expression that is not a bare identifier
InvalidTarget(words) ==
    \E s \in 1..Len(Lexemes(words)) :
        /\ ExpressionStart(Lexemes(words), s)
        /\ AssignsToExpression(Lexemes(words), s, FlatExpressionEnd(Lexemes(words), s))

\* C11: a source with an "=" after an expression other than a bare identifier
\* does not compile, and "Invalid assignment target." is among the errors: the
\* operand before the "=" does not take it as an assignment.
C11_AssignmentTargetGuard ==
    (/\ origin.kind = "source"
     /\ c_pc = "done"
     /\ InvalidTarget(origin.words)) =>
        CompileFailsWith("Invalid assignment target.")

\* the guard has fired on a product of two declared locals
C11_Witness ==
    /\ c_pc = "done"
    /\ InvalidTarget(origin.words)
    /\ \E k \in 1..Len(origin.words) : origin.words[k] = "*"
    /\ Len(compiler.locals) = 2
    /\ CompileFailsWith("Invalid assignment target.")

\* How many lexemes of the text are w
CountLexeme(ws, w) == Cardinality({k \in 1..Len(ws) : ws[k] = w})

\* The opcodes that leave the value of an expression on top of the stack
ValueOps ==
    {"Constant", "LongConstant", "GetLocal", "SetLocal", "FetchGlobal", "SetGlobal",
     "Negate", "Not", "Add", "Subtract", "Multiply", "Divide", "Equal", "Greater",
     "Less", "Call"}

\* The Return instructions of a chunk that follow the code of an expression
ValueReturns(chunk) ==
    {i \in 2..Len(chunk.code) :
        chunk.code[i].op = "Return" /\ chunk.code[i - 1].op \in ValueOps}

\* The Return instructions of a chunk that follow Constant nil
NilReturns(chunk) ==
    {i \in 2..Len(chunk.code) :
        /\ chunk.code[i].op = "Return"
        /\ chunk.code[i - 1].op = "Constant"
        /\ chunk.code[i - 1].arg < Len(chunk.constants)
        /\ chunk.constants[chunk.code[i - 1].arg + 1] = Nil}

\* All Return instructions of a function and of the functions among its
\* constants are counted, the constants from the k-th on
RECURSIVE CountReturns(_, _, _)
CountReturns(fn, k, nil_only) ==
    IF k > Len(fn.chunk.constants)
    THEN Cardinality(IF nil_only THEN NilReturns(fn.chunk) ELSE ValueReturns(fn.chunk))
    ELSE (IF fn.chunk.constants[k].kind = "Function"
          THEN CountReturns(fn.chunk.constants[k].f, 1, nil_only)
          ELSE 0)
         + CountReturns(fn, k + 1, nil_only)

\* All instructions with this opcode in a function and in the functions among
\* its constants
RECURSIVE CountOps(_, _, _)
CountOps(fn, k, op) ==
    IF k > Len(fn.chunk.constants)
    THEN Cardinality({i \in 1..Len(fn.chunk.code) : fn.chunk.code[i].op = op})
    ELSE (IF fn.chunk.constants[k].kind = "Function"
          THEN CountOps(fn.chunk.constants[k].f, 1, op)
          ELSE 0)
         + CountOps(fn, k + 1, op)

\* return ; in the text
BareReturns(ws) ==
    Cardinality({k \in 1..Len(ws) - 1 : ws[k] = "return" /\ ws[k + 1] = ";"})

\* C12: a source with a return outside every function body does not compile,
\* and "Can't return from top-level code." is among the errors.  In a source
\* that compiles, each return of a function body has become a Return after the
\* code of its expression, and after Constant nil when it has no expression:
\* with the Return that ends every function and the script, the text accounts
\* for every Return of the compiled code.
C12_TopLevelReturnGuard ==
    (origin.kind = "source" /\ c_pc = "done") =>
        /\ Declarations(origin.words).top_return =>
               CompileFailsWith("Can't return from top-level code.")
        /\ compile_result.kind = "Ok" =>
               /\ CountOps(compile_result.function, 1, "Return") =
                      CountLexeme(origin.words, "return")
                      + CountLexeme(origin.words, "fun") + 1
               /\ CountReturns(compile_result.function, 1, FALSE) =
                      CountOps(compile_result.function, 1, "Return")
               /\ CountReturns(compile_result.function, 1, TRUE) >=
                      BareReturns(Lexemes(origin.words))
                      + CountLexeme(origin.words, "fun") + 1

\* a function with a return in nested blocks and a bare return has compiled
C12_Witness ==
    /\ c_pc = "done"
    /\ compile_result.kind = "Ok"
    /\ Declarations(origin.words).fun_return
    /\ BareReturns(Lexemes(origin.words)) = 1
    /\ CountLexeme(origin.words, "return") = 2
    /\ CountOps(compile_result.function, 1, "Return") = 4

\* The token types at which Compiler::synchronize stops discarding
StatementStarts == {"class", "fun", "var", "for", "if", "while", "print", "return"}

\* The parser stands at a statement boundary
AtBoundary(p) ==
    \/ p.current.token_type.tag = "Eof"
    \/ p.previous.token_type.tag = ";"
    \/ p.current.token_type.tag \in StatementStarts

\* C13: a step of compile that meets an error appends it to the errors
\* recorded, discards tokens up to a statement boundary (the token consumed
\* last is ";", or the next token starts a statement or is Eof) and goes on
\* compiling; when compile returns, it returns the errors recorded if there
\* is one, and a function only if there is none.
C13_ErrorRecovery ==
    [][/\ errors' # errors =>
            /\ Len(errors') = Len(errors) + 1
            /\ SubSeq(errors', 1, Len(errors)) = errors
            /\ parser'.next >= parser.next
            /\ AtBoundary(parser')
            /\ c_pc' = "compiling"
       /\ (c_pc = "compiling" /\ c_pc' = "done") =>
            /\ errors' # <<>> => compile_result' = CompileErr
            /\ compile_result'.kind = "Ok" => errors' = <<>>]_vars

-----------------------------------------------------------------------------
(* Properties of the virtual machine, continued *)

\* interpret has returned Err(e)
ReturnedErr == vm_pc = "returned" /\ result.kind = "Err"

\* C14: the step on which an instruction fails is the last step of the run:
\* interpret has returned, its result is that error and stays so, and no
\* instruction runs afterwards.  The captured prints grow only by a Print that
\* succeeds, which appends the value it popped, so at the failure they are the
\* values of the Prints executed before it, in the order of execution.
C14_RuntimeErrorEndsRun ==
    [][/\ (result.kind = "Pending" /\ result'.kind = "Err") =>
            /\ vm_pc' = "returned"
            /\ captured_prints' = captured_prints
       /\ ReturnedErr => UNCHANGED <<result, vm_pc, steps, frames, stack, globals,
                                     captured_prints>>
       /\ captured_prints' # captured_prints =>
            /\ Executes("Print")
            /\ Len(stack) > 0
            /\ captured_prints' =
                   Append(captured_prints, ValueDisplay(stack[Len(stack)]))
            /\ result' = ResultPending
       /\ (Executes("Print") /\ Len(stack) > 0 /\ settings.capture_prints) =>
            Len(captured_prints') = Len(captured_prints) + 1]_vars

\* print 1; print 2; print -true; print 3; has failed at the Negate: two values
\* are captured and the last Print was never reached
C14_Witness ==
    /\ ReturnedErr
    /\ result = InvalidRuntimeType
    /\ Ran("Negate")
    /\ captured_prints = <<"1", "2">>
    /\ \E i \in CurrentFrame.ip + 1..Len(CurrentFrame.function.chunk.code) :
           CurrentFrame.function.chunk.code[i].op = "Print"

\* The operand stack slot at the base of a frame holds the function of the frame
BaseHoldsFunction(frame) ==
    /\ frame.stack_offset < Len(stack)
    /\ stack[frame.stack_offset + 1].kind = "Function"
    /\ stack[frame.stack_offset + 1].f = frame.function

\* C15: while interpret runs, the operand stack slot at the base of every
\* frame of the frame stack, the frame of the script included, holds the
\* function that the frame executes.
C15_BaseSlotHoldsFunction ==
    vm_pc = "running" => \A i \in 1..Len(frames) : BaseHoldsFunction(frames[i])

-----------------------------------------------------------------------------
(* Properties of the compiler, continued *)

\* The slots that the GetLocal and SetLocal instructions of a chunk name
LocalSlots(chunk) ==
    {chunk.code[i].arg : i \in {j \in 1..Len(chunk.code) :
                                  chunk.code[j].op \in {"GetLocal", "SetLocal"}}}

\* The slots named in the bodies of the functions among the constants of fn,
\* from the k-th constant on, and of the functions nested in them
RECURSIVE BodySlots(_, _)
BodySlots(fn, k) ==
    IF k > Len(fn.chunk.constants) THEN {}
    ELSE (IF fn.chunk.constants[k].kind = "Function"
          THEN LocalSlots(fn.chunk.constants[k].f.chunk)
               \cup BodySlots(fn.chunk.constants[k].f, 1)
          ELSE {})
         \cup BodySlots(fn, k + 1)

\* The compiler that Compiler::function creates for a body, as it stands when
\* the parameters are about to be parsed
BodyCompiler == begin_scope(new_for_function(State, "f"))

\* C16: the compiler of a function body starts at scope depth 1 with one
\* local, reserved for the callee, in slot 0; no name of the source resolves
\* to that slot, so the bodies of the functions of a compiled source never
\* read or write slot 0 (the first parameter is slot 1).
C16_ReservedSlotZero ==
    (/\ origin.kind = "source" /\ c_pc = "done" /\ compile_result.kind = "Ok"
     /\ CountLexeme(origin.words, "fun") > 0) =>
        /\ BodyCompiler.scope_depth = 1
        /\ Len(BodyCompiler.locals) = 1
        /\ 0 \notin BodySlots(compile_result.function, 1)

-----------------------------------------------------------------------------
(* Properties of the chunk and its lines *)

\* The run lengths of the entries of a Lines, added up from entry k on
RECURSIVE RunLengths(_, _)
RunLengths(data, k) ==
    IF k > Len(data) THEN 0 ELSE data[k][2] + RunLengths(data, k + 1)

\* The positions of a sequence of lines at which a run of equal lines ends
RunEnds(pushed) ==
    {i \in 1..Len(pushed) : i = Len(pushed) \/ pushed[i] # pushed[i + 1]}

\* C17: after any sequence of pushes, get(i) is the line of push i + 1 when
\* i is below the number of pushes and None from there on; the Lines holds one
\* (line, run length) entry for each run of consecutive equal lines, and the
\* run lengths add up to the number of pushes.
C17_LinesRunLength ==
    /\ \A i \in 0..MaxCode + 1 :
           LinesGet(unit_chunk.lines, i) =
               IF i < Len(unit_pushed) THEN <<unit_pushed[i + 1]>> ELSE <<>>
    /\ Len(unit_chunk.lines) = Cardinality(RunEnds(unit_pushed))
    /\ \A k \in 1..Len(unit_chunk.lines) : unit_chunk.lines[k][2] >= 1
    /\ RunLengths(unit_chunk.lines, 1) = Len(unit_pushed)

\* lines 1, 1, 2 have been pushed: two runs, the first of length two
C17_Witness ==
    /\ unit_pushed = <<1, 1, 2>>
    /\ unit_chunk.lines = << <<1, 2>>, <<2, 1>> >>
    /\ LinesGet(unit_chunk.lines, 1) = <<1>>
    /\ LinesGet(unit_chunk.lines, 2) = <<2>>
    /\ LinesGet(unit_chunk.lines, 3) = <<>>

\* The step is a call of patch_jump on an instruction of the chunk
PatchesAt(i) ==
    /\ unit_returned' = Called("patch_jump", i, unit_returned'.returned)
    /\ unit_returned'.returned # ""
    /\ i < Len(unit_chunk.code)

\* C20: patch_jump(i) on a JumpIfFalse or a Jump at index i returns Ok and
\* sets the offset of that instruction to code.len() - i - 1, so that the jump,
\* taken with ip = i + 1, goes on at index code.len(); nothing else changes.
\* On any other instruction it returns an error and the chunk is unchanged.
C20_PatchJump ==
    [][\A i \in 0..MaxCode :
          PatchesAt(i) =>
              IF unit_chunk.code[i + 1].op \in {"JumpIfFalse", "Jump"}
              THEN /\ unit_returned'.returned = "Ok"
                   /\ unit_chunk'.code[i + 1].op = unit_chunk.code[i + 1].op
                   /\ unit_chunk'.code[i + 1].arg = Len(unit_chunk.code) - i - 1
                   /\ i + 1 + unit_chunk'.code[i + 1].arg = Len(unit_chunk.code)
                   /\ \A j \in 1..Len(unit_chunk.code) :
                          j # i + 1 => unit_chunk'.code[j] = unit_chunk.code[j]
                   /\ Len(unit_chunk'.code) = Len(unit_chunk.code)
                   /\ unit_chunk'.lines = unit_chunk.lines
                   /\ unit_chunk'.constants = unit_chunk.constants
              ELSE /\ unit_returned'.returned =
                          "Invalid instruction " \o InstructionDebug(unit_chunk.code[i + 1])
                          \o " found when trying to patch a jump"
                   /\ unit_chunk' = unit_chunk]_vars

\* the JumpIfFalse at index 0 of a chunk of three instructions has been patched
\* to offset 2, and a patch of the Pop after it has been refused
C20_Witness ==
    /\ Len(unit_chunk.code) = 3
    /\ unit_chunk.code[1] = IA("JumpIfFalse", 2)
    /\ unit_chunk.code[2] = I("Pop")
    /\ unit_returned =
           Called("patch_jump", 1, "Invalid instruction Pop found when trying to patch a jump")

-----------------------------------------------------------------------------
(* Properties of the virtual machine: the types of operands *)

\* The operand pushed last and the one pushed before it
Top == stack[Len(stack)]
Second == stack[Len(stack) - 1]

\* The step ends the run with this error
FailsWith(e) == vm_pc' = "returned" /\ result' = e

\* C18: Negate on an operand that is not a number, and Subtract, Multiply,
\* Divide, Greater and Less on two operands one of which is not a number, end
\* the run with InvalidRuntimeType; so does Add on two operands that are
\* neither two numbers nor two strings.  Add on two strings replaces them by
\* their concatenation, the operand pushed first in front.
C18_OperandTypes ==
    [][/\ (Executes("Negate") /\ Len(stack) >= 1 /\ Top.kind # "Double") =>
            FailsWith(InvalidRuntimeType)
       /\ \A op \in {"Subtract", "Multiply", "Divide", "Greater", "Less"} :
            (/\ Executes(op) /\ Len(stack) >= 2
             /\ (Top.kind # "Double" \/ Second.kind # "Double")) =>
                FailsWith(InvalidRuntimeType)
       /\ (/\ Executes("Add") /\ Len(stack) >= 2
           /\ ~(Top.kind = "Double" /\ Second.kind = "Double")
           /\ ~(Top.kind = "String" /\ Second.kind = "String")) =>
                FailsWith(InvalidRuntimeType)
       /\ (/\ Executes("Add") /\ Len(stack) >= 2
           /\ Top.kind = "String" /\ Second.kind = "String") =>
                /\ stack' = Append(SubSeq(stack, 1, Len(stack) - 2),
                                   String(Second.s \o Top.s))
                /\ vm_pc' = "running"
                /\ result' = ResultPending]_vars

\* print "x" + 1; has failed at the Add of a string and a number
C18_Witness ==
    /\ vm_pc = "returned"
    /\ result = InvalidRuntimeType
    /\ Ran("Add")
    /\ origin.kind = "source"
    /\ origin.words = <<"print", "\"x\"", "+", "1", ";">>

-----------------------------------------------------------------------------
(* Properties of the compiler: functions declared in a block *)

\* compile is about to compile a block that begins with a fun declaration
AtBlockWithFun ==
    /\ c_pc = "compiling"
    /\ parser.current.token_type.tag = "{"
    /\ ScanToken(State).token_type.tag = "fun"

\* The compiler inside that block: statement has matched "{" and begun the
\* scope, declaration has matched "fun"
InBlockAtFun == advance(begin_scope(advance(State)))

\* The compiler after the fun declaration of that block
AfterFun == fun_declaration(InBlockAtFun)

\* C19: a fun declaration in a block adds exactly one local, named as the
\* function, at the depth of the block and initialized, and leaves the locals
\* before it as they were; closing the block pops that local, so end_scope
\* writes one Pop more than it would have written before the declaration.
C19_BlockFunctionIsLocal ==
    (AtBlockWithFun /\ IsOk(AfterFun)) =>
        /\ Len(AfterFun.locals) = Len(InBlockAtFun.locals) + 1
        /\ SubSeq(AfterFun.locals, 1, Len(InBlockAtFun.locals)) = InBlockAtFun.locals
        /\ AfterFun.locals[Len(AfterFun.locals)].token = InBlockAtFun.current
        /\ AfterFun.locals[Len(AfterFun.locals)].depth = InBlockAtFun.scope_depth
        /\ AfterFun.locals[Len(AfterFun.locals)].initialized
        /\ Len(end_scope(AfterFun).function.chunk.code) =
               Len(AfterFun.function.chunk.code) + Len(InBlockAtFun.locals) + 1

-----------------------------------------------------------------------------
(* Properties of the compiler: jumps *)

\* The forward jumps of a chunk are patched and land within the code (the
\* instruction at 1-based j has index j - 1 and target j + offset), and its
\* backward jumps land at or after the first instruction
JumpsWithin(chunk) ==
    \A j \in 1..Len(chunk.code) :
        /\ chunk.code[j].op \in {"JumpIfFalse", "Jump"} =>
               /\ chunk.code[j].arg >= 1
               /\ j + chunk.code[j].arg <= Len(chunk.code)
        /\ chunk.code[j].op = "JumpBack" =>
               /\ chunk.code[j].arg >= 1
               /\ j - chunk.code[j].arg >= 0

\* JumpsWithin for a function and the functions among its constants, from the
\* k-th constant on
RECURSIVE AllJumpsWithin(_, _)
AllJumpsWithin(fn, k) ==
    IF k > Len(fn.chunk.constants) THEN JumpsWithin(fn.chunk)
    ELSE /\ (fn.chunk.constants[k].kind = "Function" =>
                AllJumpsWithin(fn.chunk.constants[k].f, 1))
         /\ AllJumpsWithin(fn, k + 1)

\* C21: in the script that a successful compile returns and in every function
\* among its constants, each JumpIfFalse and Jump carries a patched offset and
\* its target, own index + 1 + offset, is at most code.len(); while the script
\* is compiled, a JumpBack once written is never changed.
C21_JumpsPatched ==
    [][/\ (c_pc' = "done" /\ compile_result'.kind = "Ok") =>
            AllJumpsWithin(compile_result'.function, 1)
       /\ c_pc' = "compiling" =>
            \A j \in 1..Len(compiler.function.chunk.code) :
                compiler.function.chunk.code[j].op = "JumpBack" =>
                    /\ j <= Len(compiler'.function.chunk.code)
                    /\ compiler'.function.chunk.code[j] =
                           compiler.function.chunk.code[j]]_vars

\* a source with a for loop has compiled: its code holds both loops back, the
\* jump over the increment and the exit jump
C21_Witness ==
    /\ c_pc = "done"
    /\ compile_result.kind = "Ok"
    /\ CountOps(compile_result.function, 1, "JumpBack") = 2
    /\ CountOps(compile_result.function, 1, "Jump") = 1
    /\ CountOps(compile_result.function, 1, "JumpIfFalse") = 1

\* The step compiles, without an error, the statement that begins with this
\* keyword at the top level of the source
Compiles(keyword) ==
    /\ c_pc = "compiling" /\ c_pc' = "compiling"
    /\ parser.current.token_type.tag = keyword
    /\ errors' = errors
    /\ parser' # parser

\* The code before and after a step of compile, and where the code of the
\* statement compiled begins (the index that was code.len())
CodeBefore == compiler.function.chunk.code
CodeAfter == compiler'.function.chunk.code

\* The 1-based positions of the statement's instructions with this opcode
Emitted(op) == {j \in Len(CodeBefore) + 1..Len(CodeAfter) : CodeAfter[j].op = op}
First(positions) == CHOOSE j \in positions : \A k \in positions : j <= k
Last(positions) == CHOOSE j \in positions : \A k \in positions : j >= k

\* Where the JumpBack at 1-based position j continues: its index j - 1, plus
\* 1 for the fetch, minus its offset
BackTarget(j) == j - CodeAfter[j].arg

\* C22: executing a JumpBack sets ip to its index + 1 - offset.  The JumpBack
\* that ends a while loop so continues at the first instruction of the
\* condition; in a for loop without initializer the JumpBack after the
\* increment continues at the first instruction of the condition and the one
\* after the body at the first instruction of the increment, which follows
\* the Jump over it.
C22_LoopBack ==
    [][/\ (Executes("JumpBack") /\ vm_pc' = "running") =>
            frames'[Len(frames)].ip = CurrentFrame.ip + 1 - Instruction.arg
       /\ Compiles("while") =>
            /\ Emitted("JumpBack") # {}
            /\ BackTarget(Last(Emitted("JumpBack"))) = Len(CodeBefore)
       /\ (/\ Compiles("for")
           /\ ScanToken(State).token_type.tag = "("
           /\ parser.toks[parser.next + 1].token_type.tag = ";") =>
            /\ Emitted("JumpBack") # {}
            /\ BackTarget(First(Emitted("JumpBack"))) = Len(CodeBefore)
            /\ (Cardinality(Emitted("JumpBack")) = 2
                 /\ Cardinality(Emitted("Jump")) = 1) =>
                   BackTarget(Last(Emitted("JumpBack"))) = First(Emitted("Jump"))]_vars

\* var c = 0; for (; c < 2; c = c + 1) print c; has run: the loop went round
\* through both JumpBacks
C22_Witness ==
    /\ origin.kind = "source"
    /\ origin.words =
           <<"var", "c", "=", "0", ";", "\n", "for", "(", ";", "c", "<", "2", ";", "c",
             "=", "c", "+", "1", ")", "print", "c", ";">>
    /\ vm_pc = "returned"
    /\ captured_prints = <<"0", "1">>

-----------------------------------------------------------------------------
(* Properties of the compiler: scopes *)

\* compile is about to compile a block
AtBlock == c_pc = "compiling" /\ parser.current.token_type.tag = "{"

\* The compiler at the end of that block, before Compiler::statement closes
\* the scope
BlockEnd == block(begin_scope(advance(State)))

\* The locals of s that a scope closing to this depth keeps
Kept(s, depth) == SelectSeq(s.locals, LAMBDA l : l.depth <= depth)

\* What end_scope does to s: one level up, one Pop written for each local
\* deeper than the new depth, and those locals gone
Closes(s) ==
    /\ end_scope(s).scope_depth = s.scope_depth - 1
    /\ end_scope(s).locals = Kept(s, s.scope_depth - 1)
    /\ Len(end_scope(s).function.chunk.code) =
           Len(s.function.chunk.code) + Len(s.locals) - Len(Kept(s, s.scope_depth - 1))
    /\ \A j \in Len(s.function.chunk.code) + 1..Len(end_scope(s).function.chunk.code) :
           end_scope(s).function.chunk.code[j] = I("Pop")
    /\ SubSeq(end_scope(s).function.chunk.code, 1, Len(s.function.chunk.code)) =
           s.function.chunk.code

\* C23: end_scope decrements scope_depth, writes exactly one Pop for each
\* local deeper than the new scope_depth and removes exactly those locals,
\* whether it closes a block that compiled or a scope that an error left
\* open; when compile has returned a function the locals list is empty.
C23_ScopeClose ==
    /\ (AtBlock /\ IsOk(BlockEnd)) => Closes(BlockEnd)
    /\ (c_pc = "compiling" /\ compiler.scope_depth > 0) => Closes(State)
    /\ (c_pc = "done" /\ compile_result.kind = "Ok") => compiler.locals = <<>>

\* { var a = 1; var b = 2; print a + b; }: the block ends with two locals and
\* closing it writes two Pops
C23_Witness ==
    /\ AtBlock
    /\ IsOk(BlockEnd)
    /\ Len(BlockEnd.locals) = 2
    /\ end_scope(BlockEnd).locals = <<>>
    /\ Len(end_scope(BlockEnd).function.chunk.code) =
           Len(BlockEnd.function.chunk.code) + 2

-----------------------------------------------------------------------------
(* Properties of the constant pool *)

\* The instructions of a chunk that name a global
GlobalOps(chunk) ==
    {j \in 1..Len(chunk.code) :
        chunk.code[j].op \in {"DefineGlobal", "FetchGlobal", "SetGlobal"}}

\* In a chunk every instruction that names a global names a string of the
\* pool, and two that name the same identifier carry the same index
NamesShared(chunk) ==
    /\ \A j \in GlobalOps(chunk) :
           /\ chunk.code[j].arg < Len(chunk.constants)
           /\ chunk.constants[chunk.code[j].arg + 1].kind = "String"
    /\ \A j, k \in GlobalOps(chunk) :
           chunk.constants[chunk.code[j].arg + 1].s =
               chunk.constants[chunk.code[k].arg + 1].s
           => chunk.code[j].arg = chunk.code[k].arg

\* NamesShared for a function and the functions among its constants, from
\* the k-th constant on
RECURSIVE AllNamesShared(_, _)
AllNamesShared(fn, k) ==
    IF k > Len(fn.chunk.constants) THEN NamesShared(fn.chunk)
    ELSE /\ (fn.chunk.constants[k].kind = "Function" =>
                AllNamesShared(fn.chunk.constants[k].f, 1))
         /\ AllNamesShared(fn, k + 1)

\* C24: after any calls of make_constant, each index returned is valid and
\* the constant at it is the value passed (the value itself, or the constant
\* that == holds equal to it: 0 for -0), calls with equal values returned
\* the same index, and no two constants of the pool are equal; in a compiled
\* function the DefineGlobal, FetchGlobal and SetGlobal of one identifier
\* carry one name index.
C24_ConstantPool ==
    /\ \A k \in 1..Len(unit_made) :
           /\ unit_made[k].index < Len(unit_chunk.constants)
           /\ \/ unit_chunk.constants[unit_made[k].index + 1] = unit_made[k].value
              \/ ValueEq(unit_chunk.constants[unit_made[k].index + 1], unit_made[k].value)
    /\ \A j, k \in 1..Len(unit_made) :
           ValueEq(unit_made[j].value, unit_made[k].value)
           => unit_made[j].index = unit_made[k].index
    /\ \A a, b \in 1..Len(unit_chunk.constants) :
           a # b => ~ValueEq(unit_chunk.constants[a], unit_chunk.constants[b])
    /\ (c_pc = "done" /\ compile_result.kind = "Ok") =>
           AllNamesShared(compile_result.function, 1)

\* "x", 1, "x", "y" have been passed: the third call returned the index of the
\* first and the pool holds three constants
C24_Witness ==
    /\ Len(unit_made) = 4
    /\ unit_made[1] = [value |-> String("x"), index |-> 0]
    /\ unit_made[2] = [value |-> Double(1), index |-> 1]
    /\ unit_made[3] = [value |-> String("x"), index |-> 0]
    /\ unit_made[4] = [value |-> String("y"), index |-> 2]
    /\ Len(unit_chunk.constants) = 3

-----------------------------------------------------------------------------
(* Properties of the logical operators *)

\* The source run is print a and b; or print a or b; with literal operands
Logical == origin.kind = "source" /\ origin.words \in LogicalSources

\* In the text of such a source, the operator stops at its left operand: the
\* literals false and nil are the falsey ones
ShortCircuits ==
    IF origin.words[3] = "and" THEN origin.words[2] \in {"false", "nil"}
    ELSE origin.words[2] \notin {"false", "nil"}

\* The operand whose value the expression has
Chosen == IF ShortCircuits THEN origin.words[2] ELSE origin.words[4]

\* The step from this state dispatches the instruction of the right operand,
\* the one emitted just before the Print of the statement
ExecutesRight ==
    /\ vm_pc = "running"
    /\ steps' = steps + 1
    /\ HasInstruction
    /\ CurrentFrame.ip + 2 <= Len(CurrentFrame.function.chunk.code)
    /\ CurrentFrame.function.chunk.code[CurrentFrame.ip + 2].op = "Print"

\* C25: in print a and b; and print a or b; the instruction of b is not
\* executed when a decides the result (a falsey for and, a truthy for or),
\* and when Print is reached the stack holds one value, that of a when a
\* decided and that of b otherwise.
C25_ShortCircuit ==
    [][Logical =>
        /\ ExecutesRight => ~ShortCircuits
        /\ Executes("Print") =>
               /\ Len(stack) = 1
               /\ ValueDisplay(Top) = Chosen]_vars

\* print 0 or false; has run: 0 is truthy and was printed
C25_Witness ==
    /\ origin.words = <<"print", "0", "or", "false", ";">>
    /\ ReturnedOk
    /\ captured_prints = <<"0">>

-----------------------------------------------------------------------------
(* Properties of the slots of parameters and body variables *)

\* The first position from k on at which the lexeme w stands, 0 when none
RECURSIVE Find(_, _, _)
Find(ws, w, k) ==
    IF k > Len(ws) THEN 0
    ELSE IF ws[k] = w THEN k
    ELSE Find(ws, w, k + 1)

\* The last position of a name in a sequence of names, 0 when it is not there
LastOf(names, w) ==
    LET at == {i \in 1..Len(names) : names[i] = w}
    IN IF at = {} THEN 0 ELSE CHOOSE i \in at : \A j \in at : j <= i

\* The names of the parameter list that starts at position k
RECURSIVE Params(_, _, _)
Params(ws, k, names) ==
    IF k > Len(ws) \/ ws[k] = ")" THEN names
    ELSE IF ws[k] = "," THEN Params(ws, k + 1, names)
    ELSE Params(ws, k + 1, Append(names, ws[k]))

\* The slots that the uses of parameters and body variables in ws[k..end - 1]
\* stand for, in the order in which they are compiled (the target of an
\* assignment after its right-hand side), when the parameters take the slots
\* from 0 on and each variable declared in the body the next one
RECURSIVE Uses(_, _, _, _, _)
Uses(ws, k, end, names, slots) ==
    IF k >= end THEN slots
    ELSE IF ws[k] = "var"
         THEN Uses(ws, k + 2, end, Append(names, ws[k + 1]), slots)
    ELSE IF LastOf(names, ws[k]) > 0 /\ ws[k + 1] = "="
         THEN Uses(ws, Find(ws, ";", k), end, names,
                   Append(Uses(ws, k + 2, Find(ws, ";", k), names, slots),
                          LastOf(names, ws[k]) - 1))
    ELSE IF LastOf(names, ws[k]) > 0
         THEN Uses(ws, k + 1, end, names, Append(slots, LastOf(names, ws[k]) - 1))
    ELSE Uses(ws, k + 1, end, names, slots)

\* The source starts with a function declaration whose body holds no block
\* and no function
FlatFunction(ws) ==
    /\ Len(ws) >= 6
    /\ ws[1] = "fun"
    /\ ws[3] = "("
    /\ Find(ws, ")", 4) > 0
    /\ Find(ws, "}", 4) > Find(ws, ")", 4) + 1
    /\ \A k \in Find(ws, ")", 4) + 2..Find(ws, "}", 4) :
           ws[k] \notin {"{", "fun"}

\* The slots that the uses in the body of that function stand for
BodyUses(ws) ==
    Uses(ws, Find(ws, ")", 4) + 2, Find(ws, "}", 4), Params(ws, 4, <<>>), <<>>)

\* The slots of the GetLocal and SetLocal instructions of a chunk from
\* position k on, in the order of the code
RECURSIVE LocalArgs(_, _, _)
LocalArgs(chunk, k, slots) ==
    IF k > Len(chunk.code) THEN slots
    ELSE IF chunk.code[k].op \in {"GetLocal", "SetLocal"}
         THEN LocalArgs(chunk, k + 1, Append(slots, chunk.code[k].arg))
    ELSE LocalArgs(chunk, k + 1, slots)

\* The first function among the constants of a chunk
FirstFunction(chunk) ==
    chunk.constants[CHOOSE k \in 1..Len(chunk.constants) :
        /\ chunk.constants[k].kind = "Function"
        /\ \A j \in 1..k - 1 : chunk.constants[j].kind # "Function"].f

\* C26: in the body of a compiled function the k-th parameter, counting from
\* 0, is read and written as local k, and the variables declared in the body
\* take the indexes that follow those of the parameters.
C26_ParameterSlots ==
    (/\ origin.kind = "source" /\ c_pc = "done" /\ compile_result.kind = "Ok"
     /\ FlatFunction(origin.words)) =>
        LocalArgs(FirstFunction(compile_result.function.chunk).chunk, 1, <<>>)
            = BodyUses(origin.words)

\* fun f(a, b) { var c = a; print c; b = c; } is compiled: a is local 0, b
\* local 1 and c local 2
C26_Witness ==
    /\ origin.kind = "source" /\ c_pc = "done" /\ compile_result.kind = "Ok"
    /\ FlatFunction(origin.words)
    /\ BodyUses(origin.words) = <<0, 2, 2, 1>>
    /\ LocalArgs(FirstFunction(compile_result.function.chunk).chunk, 1, <<>>)
           = <<0, 2, 2, 1>>

-----------------------------------------------------------------------------
(* Termination of compile *)

\* The pass that the loop of compile makes from this state leaves the scanner
\* further on: declaration when it is Ok, declaration and then synchronize
\* when it is Err, and the match of Eof that ends the loop
PassConsumes ==
    LET synchronized(s1) == s1.next > parser.next
        compiled(s) ==
            IF IsOk(s) THEN s.next > parser.next
            ELSE synchronized(synchronize([s EXCEPT !.err = <<>>]))
    IN IF parser.current.token_type.tag = "Eof"
       THEN advance(State).next > parser.next
       ELSE compiled(declaration(State))

\* compile has returned from its loop with the parser at Eof
ReturnedAtEof ==
    /\ c_pc = "done"
    /\ "current" \in DOMAIN parser
    /\ parser.current.token_type.tag = "Eof"

\* C27, as stated: every pass of the loop of compile, whether the declaration
\* compiles or fails and synchronize runs, consumes at least one token, so a
\* compile that has started returns, and when it has returned Eof was
\* reached and the result is a function or an error.
C27_EofReached ==
    /\ [](c_pc = "compiling" => PassConsumes)
    /\ (c_pc = "compiling") ~> (c_pc = "done")
    /\ [](c_pc = "done" =>
             ReturnedAtEof /\ compile_result.kind \in {"Ok", "Err"})

-----------------------------------------------------------------------------
(* Operands that are not on the stack *)

\* The instructions that pop or peek at the top of the stack before anything
\* else
TopOps ==
    {"Pop", "Print", "Negate", "Not", "Add", "Subtract", "Multiply", "Divide",
     "Equal", "Greater", "Less", "JumpIfFalse"}

\* The instruction about to be dispatched has operands that are not on the
\* stack: the stack is empty for a pop or a peek, it holds fewer than n + 1
\* values for Call{n}, or the slot of a GetLocal or SetLocal that has a value
\* to peek at is at or beyond its length
OperandsMissing ==
    \/ Instruction.op \in TopOps /\ stack = <<>>
    \/ Instruction.op = "Call" /\ Len(stack) < Instruction.arg + 1
    \/ /\ Instruction.op = "GetLocal"
       /\ CurrentFrame.stack_offset + Instruction.arg >= Len(stack)
    \/ /\ Instruction.op = "SetLocal"
       /\ stack # <<>>
       /\ CurrentFrame.stack_offset + Instruction.arg >= Len(stack)

\* C28: an instruction whose operands are not on the stack ends the run with
\* a runtime error value: never a panic for an index out of bounds or an
\* arithmetic underflow.
C28_MissingOperands ==
    [][(/\ vm_pc = "running"
        /\ HasInstruction
        /\ steps' = steps + 1
        /\ OperandsMissing) =>
           (vm_pc' = "returned" /\ result'.kind = "Err")]_vars

-----------------------------------------------------------------------------
(* The scope of the script compiler between the passes of compile *)

\* C29: at the start of every pass of the loop of compile, the passes that
\* follow a recorded error and synchronize included, the script compiler is
\* at scope depth 0 and has no locals.
C29_TopLevelScope ==
    c_pc = "compiling" => (compiler.scope_depth = 0 /\ compiler.locals = <<>>)

-----------------------------------------------------------------------------
(* Properties of the Source *)

\* The i-th character of the input, None from its end on
CharAt(i) == IF i <= Len(source_input) THEN <<source_input[i]>> ELSE <<>>

\* How many of the calls before the k-th were calls of next
NextsBefore(k) ==
    Cardinality({j \in 1..k - 1 : source_calls[j].call = "next"})

\* C30: in any interleaving of next, peek and peek_two, the calls of next
\* return the characters of the input in order and then None, a peek returns
\* what the following next returns and a peek_two what the second following
\* next returns, whatever peeks were made before.
C30_SourceCursor ==
    \A k \in 1..Len(source_calls) :
        source_calls[k].returned =
            IF source_calls[k].call = "peek_two"
            THEN CharAt(NextsBefore(k) + 2)
            ELSE CharAt(NextsBefore(k) + 1)

\* on "as": peek_two is s, next is a, peek_two is None, next is s, next is None
C30_Witness ==
    /\ source_input = <<"a", "s">>
    /\ source_calls = <<[call |-> "peek_two", returned |-> <<"s">>],
                        [call |-> "next", returned |-> <<"a">>],
                        [call |-> "peek_two", returned |-> <<>>],
                        [call |-> "next", returned |-> <<"s">>],
                        [call |-> "next", returned |-> <<>>]>>

====
